---------------------------- MODULE Spec2Model ----------------------------
(***************************************************************************)
(* Model of the BOM reconciliation application: the unit normalizer, the   *)
(* quantity validator, the column mapper, the BOM comparator, the status   *)
(* reporter and the Streamlit session flow of app.py.                      *)
(*                                                                         *)
(* Text is a tuple of one-character strings, so that strip, upper/lower,   *)
(* substring tests and the similarity ratio are computed, not assumed.     *)
(* A cell value is a tagged record: text, number or the missing marker.    *)
(***************************************************************************)
EXTENDS Integers, Sequences, FiniteSets, TLC

VARIABLES
    sap_file,          \* the file in the "sap_uploader" widget, or NoFile
    software_b_file,   \* the file in the "software_b_uploader" widget, or NoFile
    session,           \* st.session_state: comparison_results, status_report, edited_data
    run,               \* what the last run of main() did: calls made, messages shown
    results_from,      \* history: the file pair whose comparison the session holds
    fn,                \* function-level runs: the function under application
    args,              \* function-level runs: its inputs
    ret                \* function-level runs: the results so far

vars == <<sap_file, software_b_file, session, run, results_from, fn, args, ret>>

-----------------------------------------------------------------------------
(* Cell values *)

Str(s) == [t |-> "str", v |-> s]
Num(n) == [t |-> "num", v |-> n]
NaN == [t |-> "nan", v |-> 0]

isna(x) == x.t = "nan"

\* the only element of a one-element set: The({e(x) : x \in {v}}) is e with
\* x standing for the value of v
The(S) == CHOOSE x \in S : TRUE

\* Python's None where a text is expected (an unmapped field's column, an
\* emptied text cell)
None == <<"None">>

-----------------------------------------------------------------------------
(* Text primitives of the Python runtime *)

LowerChars ==
    <<"a","b","c","d","e","f","g","h","i","j","k","l","m",
      "n","o","p","q","r","s","t","u","v","w","x","y","z">>

UpperChars ==
    <<"A","B","C","D","E","F","G","H","I","J","K","L","M",
      "N","O","P","Q","R","S","T","U","V","W","X","Y","Z">>

Whitespace == {" ", "\t"}

Digits == <<"0","1","2","3","4","5","6","7","8","9">>

IndexIn(c, chars) ==
    IF \E i \in 1..Len(chars) : chars[i] = c
    THEN CHOOSE i \in 1..Len(chars) : chars[i] = c
    ELSE 0

UpperChar(c) ==
    LET i == IndexIn(c, LowerChars) IN IF i = 0 THEN c ELSE UpperChars[i]

LowerChar(c) ==
    LET i == IndexIn(c, UpperChars) IN IF i = 0 THEN c ELSE LowerChars[i]

\* str.upper()
upper(s) == [i \in 1..Len(s) |-> UpperChar(s[i])] \o <<>>

\* str.lower()
lower(s) == [i \in 1..Len(s) |-> LowerChar(s[i])] \o <<>>

\* str.strip(): leading and trailing whitespace removed
strip(s) ==
    LET keep == {i \in 1..Len(s) : s[i] \notin Whitespace}
    IN  IF keep = {} THEN <<>>
        ELSE LET lo == CHOOSE i \in keep : \A j \in keep : i <= j
                 hi == CHOOSE i \in keep : \A j \in keep : i >= j
             IN  SubSeq(s, lo, hi)

\* sub in s (Python's substring test on str)
Contains(s, sub) ==
    \E i \in 1..(Len(s) - Len(sub) + 1) : SubSeq(s, i, i + Len(sub) - 1) = sub

RECURSIVE NatToStr(_)
NatToStr(n) ==
    IF n < 10 THEN <<Digits[n + 1]>>
    ELSE Append(NatToStr(n \div 10), Digits[(n % 10) + 1])

\* str(n) of an integer
IntToStr(n) == IF n < 0 THEN <<"-">> \o NatToStr(-n) ELSE NatToStr(n)

\* str(x) of a cell value
PyStr(x) ==
    CASE x.t = "str" -> x.v
      [] x.t = "num" -> IntToStr(x.v)
      [] OTHER -> <<"n","a","n">>

IsDigits(s) == Len(s) > 0 /\ \A i \in 1..Len(s) : IndexIn(s[i], Digits) # 0

RECURSIVE DigitsToNat(_)
DigitsToNat(s) ==
    IF Len(s) = 0 THEN 0
    ELSE 10 * DigitsToNat(SubSeq(s, 1, Len(s) - 1)) + (IndexIn(s[Len(s)], Digits) - 1)

\* Whether the text is an integer literal after strip (what float() and
\* pandas.to_numeric accept among the texts of this model)
IsNumericText(s) ==
    LET u == strip(s)
    IN  \/ IsDigits(u)
        \/ Len(u) > 1 /\ u[1] \in {"-", "+"} /\ IsDigits(Tail(u))

ParseNumber(s) ==
    LET u == strip(s)
    IN  IF u[1] = "-" THEN 0 - DigitsToNat(Tail(u))
        ELSE IF u[1] = "+" THEN DigitsToNat(Tail(u))
        ELSE DigitsToNat(u)

Abs(n) == IF n < 0 THEN 0 - n ELSE n

Max(a, b) == IF a >= b THEN a ELSE b

-----------------------------------------------------------------------------
(* config.py *)

\* Fractions are records [n, d] with d > 0, compared exactly.

\* QUANTITY_TOLERANCE = 0.01
QUANTITY_TOLERANCE == [n |-> 1, d |-> 100]

\* SIMILARITY_THRESHOLD = 0.8
SIMILARITY_THRESHOLD == [n |-> 8, d |-> 10]

One == [n |-> 1, d |-> 1]

Zero == [n |-> 0, d |-> 1]

RatLess(x, y) == x.n * y.d < y.n * x.d

RatLeq(x, y) == x.n * y.d <= y.n * x.d

RatEq(x, y) == x.n * y.d = y.n * x.d

-----------------------------------------------------------------------------
(* modules/bom_comparator.py: normalize_unit, validate_quantity *)

unit_mappings ==
   <<
      << <<"P","C","S">>,
        << <<"P","C","S">>,
          <<"P","C">>,
          <<"P","I","E","C","E">>,
          <<"P","I","E","C","E","S">>,
          <<"P","Z","A">>,
          <<"P","Z","A","S">>,
          <<"P","I","E","Z","A">>,
          <<"P","I","E","Z","A","S">> >> >>,
      << <<"K","G">>,
        << <<"K","G">>,
          <<"K","I","L","O","G","R","A","M">>,
          <<"K","I","L","O","G","R","A","M","S">>,
          <<"K","I","L","O">>,
          <<"K","I","L","O","S">> >> >>,
      << <<"M">>,
        << <<"M">>,
          <<"M","E","T","E","R">>,
          <<"M","E","T","E","R","S">>,
          <<"M","E","T","R","O">>,
          <<"M","E","T","R","O","S">> >> >>,
      << <<"L">>,
        << <<"L">>,
          <<"L","I","T","E","R">>,
          <<"L","I","T","E","R","S">>,
          <<"L","I","T","R","O">>,
          <<"L","I","T","R","O","S">> >> >>,
      << <<"G">>,
        << <<"G">>,
          <<"G","R","A","M">>,
          <<"G","R","A","M","S">>,
          <<"G","R","A","M","O">>,
          <<"G","R","A","M","O","S">> >> >>,
      << <<"C","M">>,
        << <<"C","M">>,
          <<"C","E","N","T","I","M","E","T","E","R">>,
          <<"C","E","N","T","I","M","E","T","E","R","S">>,
          <<"C","E","N","T","I","M","E","T","R","O">>,
          <<"C","E","N","T","I","M","E","T","R","O","S">> >> >>,
      << <<"M","M">>,
        << <<"M","M">>,
          <<"M","I","L","L","I","M","E","T","E","R">>,
          <<"M","I","L","L","I","M","E","T","E","R","S">>,
          <<"M","I","L","I","M","E","T","R","O">>,
          <<"M","I","L","I","M","E","T","R","O","S">> >> >>,
      << <<"F","T">>,
        << <<"F","T">>,
          <<"F","O","O","T">>,
          <<"F","E","E","T">>,
          <<"P","I","E">>,
          <<"P","I","E","S">> >> >>,
      << <<"I","N">>,
        << <<"I","N">>,
          <<"I","N","C","H">>,
          <<"I","N","C","H","E","S">>,
          <<"P","U","L","G","A","D","A">>,
          <<"P","U","L","G","A","D","A","S">> >> >>,
      << <<"L","B">>,
        << <<"L","B">>,
          <<"P","O","U","N","D">>,
          <<"P","O","U","N","D","S">>,
          <<"L","I","B","R","A">>,
          <<"L","I","B","R","A","S">> >> >>
   >>

RECURSIVE LookupUnit(_, _)
\* the loop over unit_mappings.items(): the first standard unit whose
\* variations hold unit_str, or unit_str itself
LookupUnit(unit_str, i) ==
    IF i > Len(unit_mappings) THEN unit_str
    ELSE IF \E k \in 1..Len(unit_mappings[i][2]) : unit_mappings[i][2][k] = unit_str
         THEN unit_mappings[i][1]
         ELSE LookupUnit(unit_str, i + 1)

RECURSIVE LookupUnitSubstring(_, _)
LookupUnitSubstring(unit_str, i) ==
    IF i > Len(unit_mappings) THEN unit_str
    ELSE IF \E k \in 1..Len(unit_mappings[i][2]) :
                Contains(unit_mappings[i][2][k], unit_str)
         THEN unit_mappings[i][1]
         ELSE LookupUnitSubstring(unit_str, i + 1)

\* normalize_unit with the variations tested by `in` on text instead of on
\* the list
normalize_unit_Substring(unit) ==
    IF isna(unit) THEN <<>>
    ELSE LookupUnitSubstring(upper(strip(PyStr(unit))), 1)

normalize_unit(unit) ==
    IF isna(unit) THEN <<>>
    ELSE LookupUnit(upper(strip(PyStr(unit))), 1)

\* float(q) raises ValueError for a text that is no number
FloatRaises(q) == q.t = "str" /\ ~IsNumericText(q.v)

\* float(q) if not pd.isna(q) else 0.0
FloatOrZero(q) ==
    CASE q.t = "nan" -> 0
      [] q.t = "num" -> q.v
      [] OTHER -> ParseNumber(q.v)

\* a / b <= tolerance.n / tolerance.d, for b # 0 and tolerance.d > 0
RatioLeq(a, b, tolerance) ==
    IF b > 0 THEN a * tolerance.d <= tolerance.n * b
    ELSE a * tolerance.d >= tolerance.n * b

\* validate_quantity with the difference taken relative to the first
\* quantity instead of the larger one
validate_quantity_DivFirst(qty1, qty2, tolerance) ==
    IF FloatRaises(qty1) \/ FloatRaises(qty2)
    THEN strip(PyStr(qty1)) = strip(PyStr(qty2))
    ELSE LET q1 == FloatOrZero(qty1)
             q2 == FloatOrZero(qty2)
         IN  IF q1 = 0 /\ q2 = 0 THEN TRUE
             ELSE IF q1 = 0 \/ q2 = 0 THEN FALSE
             ELSE RatioLeq(Abs(q1 - q2), q1, tolerance)

validate_quantity(qty1, qty2, tolerance) ==
    IF FloatRaises(qty1) \/ FloatRaises(qty2)
    THEN strip(PyStr(qty1)) = strip(PyStr(qty2))
    ELSE LET q1 == FloatOrZero(qty1)
             q2 == FloatOrZero(qty2)
         IN  IF q1 = 0 /\ q2 = 0 THEN TRUE
             ELSE IF q1 = 0 \/ q2 = 0 THEN FALSE
             ELSE RatioLeq(Abs(q1 - q2), Max(q1, q2), tolerance)

-----------------------------------------------------------------------------
(* Values of the application variables while a single function is applied *)

NoFile == [name |-> <<>>, content |-> [kind |-> "none", header |-> <<>>, lines |-> <<>>]]

\* st.session_state after lines 32-37: None is the empty tuple, a stored
\* value v is <<v>>
EmptySession ==
    [comparison_results |-> <<>>, status_report |-> <<>>, edited_data |-> <<>>]

NoRun == [calls |-> <<>>, messages |-> <<>>, button |-> FALSE, displayed |-> FALSE]

AppIdle ==
    /\ sap_file = NoFile
    /\ software_b_file = NoFile
    /\ session = EmptySession
    /\ run = NoRun
    /\ results_from = <<>>

AppUnchanged == UNCHANGED <<sap_file, software_b_file, session, run, results_from>>

-----------------------------------------------------------------------------
(* normalize_unit applied repeatedly to one raw unit *)

\* how many times normalize_unit is applied in a row
MaxApplications == 2

AllVariations ==
    UNION {{unit_mappings[i][2][k] : k \in 1..Len(unit_mappings[i][2])} :
           i \in 1..Len(unit_mappings)}

UnitInputs ==
    {Str(s) : s \in AllVariations}
    \cup {Str(lower(s)) : s \in AllVariations}
    \cup {Str(<<" ">> \o lower(s) \o <<" ", "\t">>) : s \in AllVariations}
    \cup {NaN, Num(5), Str(<<>>), Str(<<" ">>),
          Str(<<"b","o","x">>), Str(<<" ","B","o","x"," ">>),
          Str(<<"U","N","A","S","S","I","G","N","E","D">>)}

InitUnit ==
    /\ AppIdle
    /\ fn = "normalize_unit"
    /\ args \in UnitInputs
    /\ ret = <<>>

ApplyNormalizeUnit ==
    /\ fn = "normalize_unit"
    /\ Len(ret) < MaxApplications
    /\ ret' = Append(ret, normalize_unit(IF ret = <<>> THEN args ELSE Str(ret[Len(ret)])))
    /\ UNCHANGED <<fn, args>>
    /\ AppUnchanged

NextUnit == ApplyNormalizeUnit

SpecUnit == InitUnit /\ [][NextUnit]_vars

-----------------------------------------------------------------------------
(* validate_quantity applied to a pair and to the swapped pair *)

QtyInputs ==
    {Num(100), Num(99), Num(95), Num(3), Num(0), Num(0 - 5), NaN,
     Str(<<"9","5">>), Str(<<"a","b","c">>)}

Tolerances ==
    {[n |-> 0, d |-> 1], QUANTITY_TOLERANCE, [n |-> 1, d |-> 20], [n |-> 1, d |-> 2]}

InitQty ==
    /\ AppIdle
    /\ fn = "validate_quantity"
    /\ args \in [qty1 : QtyInputs, qty2 : QtyInputs, tolerance : Tolerances]
    /\ ret = <<>>

CallValidateQuantity ==
    /\ fn = "validate_quantity"
    /\ ret = <<>>
    /\ ret' = <<validate_quantity(args.qty1, args.qty2, args.tolerance)>>
    /\ UNCHANGED <<fn, args>>
    /\ AppUnchanged

CallValidateQuantitySwapped ==
    /\ fn = "validate_quantity"
    /\ Len(ret) = 1
    /\ ret' = Append(ret, validate_quantity(args.qty2, args.qty1, args.tolerance))
    /\ UNCHANGED <<fn, args>>
    /\ AppUnchanged

NextQty == CallValidateQuantity \/ CallValidateQuantitySwapped

SpecQty == InitQty /\ [][NextQty]_vars

-----------------------------------------------------------------------------
(* config.py: status indicators *)

\* the emoji of STATUS_ICONS, one entry per code point
STATUS_ICONS ==
    [correct |-> <<"U+2705">>,
     sobra   |-> <<"U+26A0", "U+FE0F">>,
     falta   |-> <<"U+274C">>]

STATUS_LABELS ==
    [correct |-> <<"C","o","r","r","e","c","t","o">>,
     sobra   |-> <<"S","o","b","r","a">>,
     falta   |-> <<"F","a","l","t","a">>]

-----------------------------------------------------------------------------
(* modules/bom_comparator.py: compare_boms *)

\* Python truthiness of a column name: None and '' are false
Truthy(col) == col # None /\ col # <<>>

\* the unit of a dataset without a unit column taken as the empty unit
UNASSIGNED_Empty == <<>>

UNASSIGNED == <<"U","N","A","S","S","I","G","N","E","D">>

AsciiOrder ==
    <<"\t", " ", "+", "-", ".">> \o Digits \o UpperChars \o <<"_">> \o LowerChars

CharRank(c) == IndexIn(c, AsciiOrder)

RECURSIVE TextLess(_, _)
\* s < t on Python str
TextLess(s, t) ==
    IF Len(t) = 0 THEN FALSE
    ELSE IF Len(s) = 0 THEN TRUE
    ELSE IF s[1] = t[1] THEN TextLess(Tail(s), Tail(t))
    ELSE CharRank(s[1]) < CharRank(t[1])

\* the order in which groupby(sort=True) lists the values of a key column of
\* mixed content: numbers by value, then text
ValueLess(a, b) ==
    CASE a.t = "num" /\ b.t = "num" -> a.v < b.v
      [] a.t = "num" /\ b.t = "str" -> TRUE
      [] a.t = "str" /\ b.t = "str" -> TextLess(a.v, b.v)
      [] OTHER -> FALSE

\* pd.to_numeric(x, errors='coerce') followed by fillna(0)
ToNumericFill0(x) ==
    CASE x.t = "num" -> x.v
      [] x.t = "str" /\ IsNumericText(x.v) -> ParseNumber(x.v)
      [] OTHER -> 0

GroupKeyLess(k1, k2) ==
    \/ ValueLess(k1[1], k2[1])
    \/ k1[1] = k2[1] /\ TextLess(k1[2], k2[2])

RECURSIVE SortGroupKeys(_)
SortGroupKeys(S) ==
    IF S = {} THEN <<>>
    ELSE LET m == CHOOSE x \in S : \A y \in S \ {x} : GroupKeyLess(x, y)
         IN  <<m>> \o SortGroupKeys(S \ {m})

RECURSIVE SumQty(_, _, _)
\* the 'sum' aggregation of the quantity over the rows of one group
SumQty(work, key, i) ==
    IF i > Len(work) THEN 0
    ELSE (IF <<work[i].part, work[i].norm_unit>> = key THEN work[i].qty ELSE 0)
         + SumQty(work, key, i + 1)

\* the 'first' aggregation: the first non-null description of the group
FirstDesc(work, key) ==
    LET hits == {i \in 1..Len(work) :
                    /\ <<work[i].part, work[i].norm_unit>> = key
                    /\ ~isna(work[i].desc)}
    IN  IF hits = {} THEN NaN
        ELSE work[CHOOSE i \in hits : \A j \in hits : i <= j].desc

\* prepare_df: the grouped lines of one source, or a KeyError when the
\* aggregation names the column None
prepare_df(df, part_col, qty_col, unit_col, desc_col) ==
    LET work == [i \in 1..Len(df.rows) |->
                    [part |-> df.rows[i][part_col],
                     norm_unit |-> IF Truthy(unit_col)
                                   THEN normalize_unit(df.rows[i][unit_col])
                                   ELSE UNASSIGNED,
                     qty |-> IF Truthy(qty_col)
                             THEN ToNumericFill0(df.rows[i][qty_col])
                             ELSE 0,
                     desc |-> IF Truthy(desc_col) THEN df.rows[i][desc_col] ELSE NaN]]
         \* groupby drops the rows whose key is missing (dropna=True)
         keys == {<<work[i].part, work[i].norm_unit>> :
                     i \in {j \in 1..Len(work) : ~isna(work[j].part)}}
         sorted == SortGroupKeys(keys)
    IN  IF {part_col, qty_col} \ {df.columns[c] : c \in 1..Len(df.columns)} # {}
        THEN [error |-> "KeyError", lines |-> <<>>]
        ELSE [error |-> "",
              lines |-> [g \in 1..Len(sorted) |->
                            [part |-> sorted[g][1],
                             norm_unit |-> sorted[g][2],
                             qty |-> SumQty(work, sorted[g], 1),
                             desc |-> FirstDesc(work, sorted[g])]]]

NormUnitColumn == <<"_","_","n","o","r","m","_","u","n","i","t">>

\* work_df once the assignments of prepare_df have run: the column
\* __norm_unit added, the quantity column replaced by its numeric form
WorkDf(df, qty_col, unit_col) ==
    [columns |-> IF \E c \in 1..Len(df.columns) : df.columns[c] = NormUnitColumn
                 THEN df.columns
                 ELSE Append(df.columns, NormUnitColumn),
     rows |-> [i \in 1..Len(df.rows) |->
                 [c \in DOMAIN df.rows[i] \cup {NormUnitColumn} |->
                     IF c = NormUnitColumn
                     THEN Str(IF Truthy(unit_col)
                              THEN normalize_unit(df.rows[i][unit_col])
                              ELSE UNASSIGNED)
                     ELSE IF Truthy(qty_col) /\ c = qty_col
                     THEN Num(ToNumericFill0(df.rows[i][c]))
                     ELSE df.rows[i][c]]]]

\* the caller's DataFrame after prepare_df, were work_df the caller's object
CallerDfAfter_NoCopy(df, qty_col, unit_col) == WorkDf(df, qty_col, unit_col)

\* the caller's DataFrame after prepare_df: work_df = df.copy() is an object
\* of its own, and the assignments to work_df do not reach df
CallerDfAfter(df, qty_col, unit_col) == df

\* zip(grouped[part_col].astype(str).str.strip(), grouped['__norm_unit'])
GroupedKeys(lines) ==
    {<<strip(PyStr(lines[g].part)), lines[g].norm_unit>> : g \in 1..Len(lines)}

\* grouped[(part column as stripped text == part) & (__norm_unit == norm_unit)]
MatchingLines(lines, key) ==
    SelectSeq(lines, LAMBDA g : strip(PyStr(g.part)) = key[1] /\ g.norm_unit = key[2])

\* '{difference:g}' for the magnitudes of this model (below 10^6 the
\* general format of an integer value is its decimal digits)
FormatG(d) == IntToStr(d)

\* the tolerance test with a strict bound
WithinTolerance_Strict(sap_qty, sb_qty) ==
    IF Max(sap_qty, sb_qty) > 0
    THEN Abs(sap_qty - sb_qty) * QUANTITY_TOLERANCE.d
            < Max(sap_qty, sb_qty) * QUANTITY_TOLERANCE.n
    ELSE sap_qty = sb_qty

WithinTolerance(sap_qty, sb_qty) ==
    IF Max(sap_qty, sb_qty) > 0
    THEN Abs(sap_qty - sb_qty) * QUANTITY_TOLERANCE.d
            <= Max(sap_qty, sb_qty) * QUANTITY_TOLERANCE.n
    ELSE sap_qty = sb_qty

StatusText(status) == STATUS_ICONS[status] \o <<" ">> \o STATUS_LABELS[status]

\* the difference taken with HPLM as the master
Difference_HplmMaster(sap_qty, sb_qty) == sb_qty - sap_qty

\* difference = sap_qty - sb_qty: SAP is the master
Difference(sap_qty, sb_qty) == sap_qty - sb_qty

\* the quantity cell that is null whenever the quantity is falsy
QuantityCell_NullWhenZero(row, qty) == IF qty # 0 THEN Num(qty) ELSE NaN

\* result['SAP Quantity'] = sap_qty if not sap_row.empty else None
QuantityCell(row, qty) == IF Len(row) > 0 THEN Num(qty) ELSE NaN

\* the body of the loop over all_keys: the result row of one key
ResultRow(sap_lines, sb_lines, sap_desc_col, sb_desc_col, key) ==
    LET sap_row == MatchingLines(sap_lines, key)
        sb_row == MatchingLines(sb_lines, key)
        sap_qty == IF Len(sap_row) > 0 THEN sap_row[1].qty ELSE 0
        sb_qty == IF Len(sb_row) > 0 THEN sb_row[1].qty ELSE 0
        unit_display == IF key[2] # UNASSIGNED THEN key[2] ELSE <<>>
        difference == Difference(sap_qty, sb_qty)
        status == IF WithinTolerance(sap_qty, sb_qty) THEN "correct"
                  ELSE IF difference > 0 THEN "falta" ELSE "sobra"
    IN  [Part_Number |-> key[1],
         Status |-> StatusText(status),
         Issues |-> CASE status = "correct" -> <<"O","K">>
                      [] status = "falta" ->
                            <<"F","a","l","t","a"," ">> \o FormatG(difference)
                                \o <<" ","e","n"," ","H","P","L","M">>
                      [] OTHER ->
                            <<"S","o","b","r","a"," ">> \o FormatG(Abs(difference))
                                \o <<" ","e","n"," ","H","P","L","M">>,
         SAP_Quantity |-> QuantityCell(sap_row, sap_qty),
         HPLM_Quantity |-> QuantityCell(sb_row, sb_qty),
         SAP_Unit |-> unit_display,
         HPLM_Unit |-> unit_display,
         SAP_Description |-> IF Len(sap_row) > 0 /\ Truthy(sap_desc_col)
                             THEN sap_row[1].desc ELSE Str(<<>>),
         HPLM_Description |-> IF Len(sb_row) > 0 /\ Truthy(sb_desc_col)
                              THEN sb_row[1].desc ELSE Str(<<>>)]

\* the two grouped tables of a call
Grouped(df_sap, df_software_b, mapping_sap, mapping_software_b) ==
    [sap |-> prepare_df(df_sap, mapping_sap.part_number.column,
                        mapping_sap.quantity.column, mapping_sap.unit.column,
                        mapping_sap.description.column),
     sb |-> prepare_df(df_software_b, mapping_software_b.part_number.column,
                       mapping_software_b.quantity.column,
                       mapping_software_b.unit.column,
                       mapping_software_b.description.column)]

\* the key set taken from the SAP side alone
all_keys_SapOnly(df_sap, df_software_b, mapping_sap, mapping_software_b) ==
    The({IF g.sap.error # "" \/ g.sb.error # "" THEN {}
         ELSE GroupedKeys(g.sap.lines) :
         g \in {Grouped(df_sap, df_software_b, mapping_sap, mapping_software_b)}})

\* sap_keys.union(sb_keys)
all_keys(df_sap, df_software_b, mapping_sap, mapping_software_b) ==
    The({IF g.sap.error # "" \/ g.sb.error # "" THEN {}
         ELSE GroupedKeys(g.sap.lines) \cup GroupedKeys(g.sb.lines) :
         g \in {Grouped(df_sap, df_software_b, mapping_sap, mapping_software_b)}})

\* the arguments of compare_boms as the caller finds them after the call:
\* the mappings are only read, the datasets go through prepare_df
ArgsAfterCompare(a) ==
    [a EXCEPT !.df_sap = CallerDfAfter(a.df_sap, a.mapping_sap.quantity.column,
                                       a.mapping_sap.unit.column),
              !.df_software_b = CallerDfAfter(a.df_software_b,
                                              a.mapping_software_b.quantity.column,
                                              a.mapping_software_b.unit.column)]

\* the orders in which a Python set of the keys can be iterated
IterationOrders(S) ==
    {f \in [1..Cardinality(S) -> S] : \A x \in S : \E i \in 1..Cardinality(S) : f[i] = x}

\* compare_boms; `order` is the iteration order of the set all_keys.  The
\* result is the table (a sequence of rows) or the error raised.
compare_boms(df_sap, df_software_b, mapping_sap, mapping_software_b, order) ==
    The({IF g.sap.error # "" THEN [error |-> g.sap.error, rows |-> <<>>]
         ELSE IF g.sb.error # "" THEN [error |-> g.sb.error, rows |-> <<>>]
         ELSE [error |-> "",
               rows |-> [i \in 1..Len(order) |->
                            ResultRow(g.sap.lines, g.sb.lines,
                                      mapping_sap.description.column,
                                      mapping_software_b.description.column,
                                      order[i])]] :
         g \in {Grouped(df_sap, df_software_b, mapping_sap, mapping_software_b)}})

-----------------------------------------------------------------------------
(* config.py: COLUMN_PATTERNS *)

COLUMN_PATTERNS ==
    [part_number |->
        << <<"C","o","m","p","o","n","e","n","t"," ","n","u","m","b","e","r">>,
           <<"E","R","P"," ","P","a","r","t"," ","N","u","m","b","e","r">>,
           <<"m","a","t","e","r","i","a","l"," ","n","o",".">>,
           <<"p","a","r","t"," ","n","u","m","b","e","r">> >>,
     quantity |->
        << <<"C","o","m","p","o","n","e","n","t"," ","q","u","a","n","t","i","t","y">>,
           <<"Q","u","a","n","t","i","t","y">>,
           <<"q","t","y">> >>,
     unit |->
        << <<"C","o","m","p","o","n","e","n","t"," ","U","o","M">>,
           <<"U","n","i","t"," ","O","f"," ","M","e","a","s","u","r","e">>,
           <<"u","n","i","t">> >>,
     description |->
        << <<"D","e","s","c","r","i","p","t","i","o","n">>,
           <<"d","e","s","c","r","i","p","t","i","o","n">> >>]

\* the keys of COLUMN_PATTERNS, in the order of the dictionary
CanonicalFields == <<"part_number", "quantity", "unit", "description">>

\* the text of a key of COLUMN_PATTERNS
FieldText ==
    [part_number |-> <<"p","a","r","t","_","n","u","m","b","e","r">>,
     quantity |-> <<"q","u","a","n","t","i","t","y">>,
     unit |-> <<"u","n","i","t">>,
     description |-> <<"d","e","s","c","r","i","p","t","i","o","n">>]

-----------------------------------------------------------------------------
(* difflib.SequenceMatcher(None, a, b).ratio(), as column_mapper.py uses it *)

RECURSIVE RunLen(_, _, _, _)
\* the length of the common run of a and b that starts at a[i], b[j]
RunLen(a, b, i, j) ==
    IF i > Len(a) \/ j > Len(b) THEN 0
    ELSE IF a[i] # b[j] THEN 0
    ELSE 1 + RunLen(a, b, i + 1, j + 1)

\* find_longest_match: the longest common block, the earliest in a and,
\* among those, the earliest in b
LongestMatch(a, b) ==
    LET \* a longest block starts where the characters agree and the ones
        \* before them do not
        starts == {p \in (1..Len(a)) \X (1..Len(b)) :
                      /\ a[p[1]] = b[p[2]]
                      /\ (p[1] = 1 \/ p[2] = 1 \/ a[p[1] - 1] # b[p[2] - 1])}
        runs == {<<p[1], p[2], RunLen(a, b, p[1], p[2])>> : p \in starts}
    IN  IF runs = {} THEN <<1, 1, 0>>
        ELSE CHOOSE r \in runs :
                \A s \in runs :
                    \/ r[3] > s[3]
                    \/ r[3] = s[3] /\ r[1] < s[1]
                    \/ r[3] = s[3] /\ r[1] = s[1] /\ r[2] <= s[2]

RECURSIVE MatchedChars(_, _)
\* the total size of get_matching_blocks(): the longest block, then the
\* same to its left and to its right
MatchedChars(a, b) ==
    IF Len(a) = 0 \/ Len(b) = 0 THEN 0
    ELSE LET m == LongestMatch(a, b)
         IN  IF m[3] = 0 THEN 0
             ELSE m[3]
                  + MatchedChars(SubSeq(a, 1, m[1] - 1), SubSeq(b, 1, m[2] - 1))
                  + MatchedChars(SubSeq(a, m[1] + m[3], Len(a)),
                                 SubSeq(b, m[2] + m[3], Len(b)))

-----------------------------------------------------------------------------
(* modules/column_mapper.py *)

calculate_similarity(str1, str2) ==
    LET a == lower(str1)
        b == lower(str2)
    IN  IF Len(a) + Len(b) = 0 THEN One
        ELSE [n |-> 2 * MatchedChars(a, b), d |-> Len(a) + Len(b)]

RECURSIVE ScanColumns(_, _, _, _, _, _)
\* the two nested loops of find_similar_columns from column ci, pattern pi
\* on, with the best candidate so far
ScanColumns(df_columns, target_patterns, threshold, ci, pi, best) ==
    IF ci > Len(df_columns) THEN best
    ELSE IF pi > Len(target_patterns)
         THEN ScanColumns(df_columns, target_patterns, threshold, ci + 1, 1, best)
    ELSE LET col == df_columns[ci]
             col_lower == strip(lower(col))
             pattern == target_patterns[pi]
         IN  IF col_lower = lower(pattern)
             THEN [match |-> col, score |-> One]
             ELSE LET sub == \/ Contains(col_lower, lower(pattern))
                             \/ Contains(lower(pattern), col_lower)
                      b1 == IF sub /\ RatLess(best.score, [n |-> 9, d |-> 10])
                            THEN [match |-> col, score |-> [n |-> 9, d |-> 10]]
                            ELSE best
                      similarity == calculate_similarity(col_lower, pattern)
                      b2 == IF RatLess(b1.score, similarity) /\ RatLeq(threshold, similarity)
                            THEN [match |-> col, score |-> similarity]
                            ELSE b1
                  IN  ScanColumns(df_columns, target_patterns, threshold, ci, pi + 1, b2)

\* df_columns from the last column to the first
Reversed(df_columns) ==
    [i \in 1..Len(df_columns) |-> df_columns[Len(df_columns) + 1 - i]]

\* find_similar_columns with the columns scanned from the last to the first
find_similar_columns_FromLastColumn(df_columns, target_patterns, threshold) ==
    ScanColumns(Reversed(df_columns), target_patterns, threshold, 1, 1,
                [match |-> None, score |-> Zero])

\* find_similar_columns keeping every similarity, the threshold ignored
find_similar_columns_NoThreshold(df_columns, target_patterns, threshold) ==
    ScanColumns(df_columns, target_patterns, Zero, 1, 1,
                [match |-> None, score |-> Zero])

find_similar_columns(df_columns, target_patterns, threshold) ==
    ScanColumns(df_columns, target_patterns, threshold, 1, 1,
                [match |-> None, score |-> Zero])

\* the loop of map_bom_columns with find_similar_columns given threshold 0
MappingEntries_AnySimilarity(df) ==
    [f \in {"part_number", "quantity", "unit", "description"} |->
        LET found == find_similar_columns(df.columns, COLUMN_PATTERNS[f], Zero)
        IN  IF Truthy(found.match)
            THEN [column |-> found.match, confidence |-> found.score]
            ELSE [column |-> None, confidence |-> Zero]]

\* the loop of map_bom_columns over COLUMN_PATTERNS.items(): the entry of
\* every field
MappingEntries(df) ==
    [f \in {"part_number", "quantity", "unit", "description"} |->
        LET found == find_similar_columns(df.columns, COLUMN_PATTERNS[f],
                                          SIMILARITY_THRESHOLD)
        IN  IF Truthy(found.match)
            THEN [column |-> found.match, confidence |-> found.score]
            ELSE [column |-> None, confidence |-> Zero]]

\* map_bom_columns with the mapping valid only when no field is missing
map_bom_columns_AllRequired(df, source_name) ==
    The({[part_number |-> entry["part_number"],
          quantity |-> entry["quantity"],
          unit |-> entry["unit"],
          description |-> entry["description"],
          is_valid |-> \A f \in DOMAIN entry : entry[f].column # None,
          missing_columns |->
              SelectSeq(CanonicalFields, LAMBDA f : entry[f].column = None),
          source_name |-> source_name] :
         entry \in {MappingEntries(df)}})

map_bom_columns(df, source_name) ==
    The({[part_number |-> entry["part_number"],
          quantity |-> entry["quantity"],
          unit |-> entry["unit"],
          description |-> entry["description"],
          is_valid |-> entry["part_number"].column # None,
          missing_columns |->
              SelectSeq(CanonicalFields, LAMBDA f : entry[f].column = None),
          source_name |-> source_name] :
         entry \in {MappingEntries(df)}})

RECURSIVE JoinComma(_)
\* ', '.join(fields)
JoinComma(fields) ==
    IF Len(fields) = 0 THEN <<>>
    ELSE IF Len(fields) = 1 THEN FieldText[fields[1]]
    ELSE FieldText[fields[1]] \o <<",", " ">> \o JoinComma(Tail(fields))

\* f"{x:.2f}" of a fraction in [0, 1]
Format2f(x) ==
    LET cents == (2 * x.n * 100 + x.d) \div (2 * x.d)
    IN  NatToStr(cents \div 100) \o <<".">>
            \o <<Digits[((cents \div 10) % 10) + 1], Digits[(cents % 10) + 1]>>

\* validate_mapping without the check of the part number's confidence
validate_mapping_NoConfidence(mapping) ==
    IF ~mapping.is_valid
    THEN <<FALSE,
           <<"N","o"," ","s","e"," ","p","u","d","o"," ","m","a","p","e","a","r"," ",
             "c","o","l","u","m","n","a","s"," ","c","r","U+00ED","t","i","c","a","s",":"," ">>
               \o JoinComma(mapping.missing_columns)>>
    ELSE <<TRUE, <<>> >>

validate_mapping(mapping) ==
    IF ~mapping.is_valid
    THEN <<FALSE,
           <<"N","o"," ","s","e"," ","p","u","d","o"," ","m","a","p","e","a","r"," ",
             "c","o","l","u","m","n","a","s"," ","c","r","U+00ED","t","i","c","a","s",":"," ">>
               \o JoinComma(mapping.missing_columns)>>
    ELSE IF RatLess(mapping.part_number.confidence, SIMILARITY_THRESHOLD)
    THEN <<FALSE,
           <<"C","o","n","f","i","a","n","z","a"," ","b","a","j","a"," ","e","n"," ",
             "m","a","p","e","o"," ","d","e"," ","P","a","r","t"," ","N","u","m","b","e","r",
             " ","(">> \o Format2f(mapping.part_number.confidence) \o <<")">> >>
    ELSE <<TRUE, <<>> >>

-----------------------------------------------------------------------------
(* compare_boms applied to two datasets and their mappings *)

\* rows of the two datasets of one call, together
MaxTotalRows == 3

SapColumns ==
    [part_number |-> <<"C","o","m","p","o","n","e","n","t"," ","n","u","m","b","e","r">>,
     quantity    |-> <<"C","o","m","p","o","n","e","n","t"," ","q","u","a","n","t","i","t","y">>,
     unit        |-> <<"C","o","m","p","o","n","e","n","t"," ","U","o","M">>,
     description |-> <<"D","e","s","c","r","i","p","t","i","o","n">>]

HplmColumns ==
    [part_number |-> <<"E","R","P"," ","P","a","r","t"," ","N","u","m","b","e","r">>,
     quantity    |-> <<"Q","u","a","n","t","i","t","y">>,
     unit        |-> <<"U","n","i","t"," ","O","f"," ","M","e","a","s","u","r","e">>,
     description |-> <<"D","e","s","c","r","i","p","t","i","o","n">>]

\* the fields for which a dataset of the comparison runs has a column (under
\* the field's exact name): the part number and all but at most one of the
\* other fields
Shapes ==
    {{"part_number", "quantity", "unit", "description"},
     {"part_number", "quantity", "description"},
     {"part_number", "unit", "description"},
     {"part_number", "quantity", "unit"}}

\* source rows, by canonical field
RowPool ==
    {[part_number |-> Str(<<"P","1">>), quantity |-> Num(100),
      unit |-> Str(<<"P","C","S">>), description |-> Str(<<"B","o","l","t">>)],
     [part_number |-> Str(<<"P","1"," ">>), quantity |-> Num(99),
      unit |-> Str(<<" ","p","c"," ">>), description |-> NaN],
     [part_number |-> Str(<<"P","1">>), quantity |-> Str(<<"9","5">>),
      unit |-> Str(<<"p","z","a">>), description |-> Str(<<"B","o","l","t"," ","M","8">>)],
     [part_number |-> Num(123), quantity |-> Str(<<"a","b","c">>),
      unit |-> NaN, description |-> Str(<<"N","u","t">>)],
     [part_number |-> Str(<<"1","2","3">>), quantity |-> Num(0 - 5),
      unit |-> NaN, description |-> NaN],
     [part_number |-> NaN, quantity |-> Num(3),
      unit |-> Str(<<"K","G">>), description |-> Str(<<"W","a","s","h","e","r">>)]}

RowSeqs == UNION {[1..n -> RowPool] : n \in 1..(MaxTotalRows - 1)}

\* the DataFrame with the columns of `present` (in canonical order) and the
\* given rows
MakeDf(names, present, rows) ==
    LET fields == SelectSeq(CanonicalFields, LAMBDA f : f \in present)
        cols == {names[f] : f \in present}
    IN  [columns |-> [i \in 1..Len(fields) |-> names[fields[i]]],
         rows |-> [i \in 1..Len(rows) |->
                     [c \in cols |-> rows[i][CHOOSE f \in present : names[f] = c]]]]

\* what map_bom_columns returns for the datasets of each shape (the mapping
\* depends on the column names only)
SapMappings ==
    [shape \in Shapes |-> map_bom_columns(MakeDf(SapColumns, shape, <<>>), <<"S","A","P">>)]

HplmMappings ==
    [shape \in Shapes |->
        map_bom_columns(MakeDf(HplmColumns, shape, <<>>), <<"H","P","L","M">>)]

InitCompare ==
    /\ AppIdle
    /\ fn = "compare_boms"
    /\ ret = <<>>
    /\ \E shape_sap \in Shapes, shape_sb \in Shapes, rows_sap \in RowSeqs, rows_sb \in RowSeqs :
          /\ Len(rows_sap) + Len(rows_sb) <= MaxTotalRows
          /\ args = [df_sap |-> MakeDf(SapColumns, shape_sap, rows_sap),
                     df_software_b |-> MakeDf(HplmColumns, shape_sb, rows_sb),
                     mapping_sap |-> SapMappings[shape_sap],
                     mapping_software_b |-> HplmMappings[shape_sb]]

CallCompareBoms ==
    /\ fn = "compare_boms"
    /\ ret = <<>>
    /\ \E order \in IterationOrders(all_keys(args.df_sap, args.df_software_b,
                                             args.mapping_sap, args.mapping_software_b)) :
          ret' = <<compare_boms(args.df_sap, args.df_software_b,
                                args.mapping_sap, args.mapping_software_b, order)>>
    /\ args' = ArgsAfterCompare(args)
    /\ UNCHANGED fn
    /\ AppUnchanged

NextCompare == CallCompareBoms

SpecCompare == InitCompare /\ [][NextCompare]_vars

-----------------------------------------------------------------------------
(* compare_boms run again on the same datasets and mappings *)

\* runs of compare_boms on one pair of datasets
MaxRuns == 2

\* another run in the interpreter process of the run before: the set
\* all_keys is built from the same strings in the same sequence under the
\* same hash salt, and iterates as it did
CallCompareBomsAgain ==
    /\ fn = "compare_boms"
    /\ Len(ret) \in 1..(MaxRuns - 1)
    /\ ret' = Append(ret, ret[Len(ret)])
    /\ args' = ArgsAfterCompare(args)
    /\ UNCHANGED fn
    /\ AppUnchanged

\* another run in a new interpreter process (the application restarted): the
\* hashes of str are salted per process, so the set all_keys iterates in an
\* order of its own
CallCompareBomsRestarted ==
    /\ fn = "compare_boms"
    /\ Len(ret) \in 1..(MaxRuns - 1)
    /\ \E order \in IterationOrders(all_keys(args.df_sap, args.df_software_b,
                                             args.mapping_sap, args.mapping_software_b)) :
          ret' = Append(ret, compare_boms(args.df_sap, args.df_software_b,
                                          args.mapping_sap, args.mapping_software_b,
                                          order))
    /\ args' = ArgsAfterCompare(args)
    /\ UNCHANGED fn
    /\ AppUnchanged

NextCompareRuns == CallCompareBoms \/ CallCompareBomsAgain \/ CallCompareBomsRestarted

SpecCompareRuns == InitCompare /\ [][NextCompareRuns]_vars
-----------------------------------------------------------------------------
(* compare_boms applied to a dataset with a unit column and a dataset
   without one *)

\* source rows of one part in several units, a unit that reads "unassigned"
\* among them
UnitRowPool ==
    {[part_number |-> Str(<<"P","1">>), quantity |-> Num(100),
      unit |-> Str(<<"P","C","S">>), description |-> Str(<<"B","o","l","t">>)],
     [part_number |-> Str(<<"P","1">>), quantity |-> Num(5),
      unit |-> Str(<<" ","u","n","a","s","s","i","g","n","e","d">>), description |-> NaN],
     [part_number |-> Str(<<"P","1">>), quantity |-> Num(95),
      unit |-> NaN, description |-> Str(<<"B","o","l","t"," ","M","8">>)],
     [part_number |-> Str(<<"P","2">>), quantity |-> Str(<<"a","b","c">>),
      unit |-> Str(<<"K","G">>), description |-> Str(<<"N","u","t">>)]}

UnitRowSeqs == UNION {[1..n -> UnitRowPool] : n \in 1..(MaxTotalRows - 1)}

WithUnit == {"part_number", "quantity", "unit", "description"}

WithoutUnit == {"part_number", "quantity", "description"}

InitCompareUnits ==
    /\ AppIdle
    /\ fn = "compare_boms"
    /\ ret = <<>>
    /\ \E shapes \in {<<WithUnit, WithoutUnit>>, <<WithoutUnit, WithUnit>>},
          rows_sap \in UnitRowSeqs, rows_sb \in UnitRowSeqs :
          /\ Len(rows_sap) + Len(rows_sb) <= MaxTotalRows
          /\ args = [df_sap |-> MakeDf(SapColumns, shapes[1], rows_sap),
                     df_software_b |-> MakeDf(HplmColumns, shapes[2], rows_sb),
                     mapping_sap |-> SapMappings[shapes[1]],
                     mapping_software_b |-> HplmMappings[shapes[2]]]

NextCompareUnits == CallCompareBoms

SpecCompareUnits == InitCompareUnits /\ [][NextCompareUnits]_vars

-----------------------------------------------------------------------------
(* map_bom_columns applied to the column names of a dataset *)

\* columns of a dataset of the mapping runs
MaxColumns == 2

ColumnNamePool ==
    {<<"M","a","t","e","r","i","a","l"," ","N","o",".">>,
     <<"P","a","r","t"," ","N","o">>,
     <<"E","R","P"," ","P","a","r","t"," ","N","u","m","b","e","r","s">>,
     <<"Q","t","y",".">>,
     <<"Q","u","a","n","t","i","t","y">>,
     <<"Q","T","Y">>,
     <<"q","u","a","n","t","i","t","y"," ","u","n","i","t">>,
     <<"U","o","M">>,
     <<"D","e","s","c","r","i","p","c","i","o","n">>,
     <<"R","e","m","a","r","k","s">>,
     <<>>}

\* column names within one dataset are unique
ColumnLists ==
    {c \in UNION {[1..n -> ColumnNamePool] : n \in 1..MaxColumns} :
        \A i, j \in 1..Len(c) : i # j => c[i] # c[j]}

InitMapper ==
    /\ AppIdle
    /\ fn = "map_bom_columns"
    /\ args \in [columns : ColumnLists, rows : {<<>>}]
    /\ ret = <<>>

CallMapBomColumns ==
    /\ fn = "map_bom_columns"
    /\ ret = <<>>
    /\ ret' = <<map_bom_columns(args, <<"S","A","P">>)>>
    /\ UNCHANGED <<fn, args>>
    /\ AppUnchanged

NextMapper == CallMapBomColumns

SpecMapper == InitMapper /\ [][NextMapper]_vars

-----------------------------------------------------------------------------
(* validate_mapping applied to a mapping *)

Confidences ==
    {Zero, [n |-> 1, d |-> 2], [n |-> 2, d |-> 3], [n |-> 79, d |-> 100],
     SIMILARITY_THRESHOLD, [n |-> 9, d |-> 10], One}

\* mapping dictionaries of the form map_bom_columns builds: is_valid and
\* missing_columns follow from the columns; the confidence of a mapped part
\* number ranges over Confidences
MappingInputs ==
    {[part_number |-> part,
      quantity |-> others["quantity"],
      unit |-> others["unit"],
      description |-> others["description"],
      is_valid |-> part.column # None,
      missing_columns |->
          SelectSeq(CanonicalFields,
                    LAMBDA f : IF f = "part_number" THEN part.column = None
                               ELSE others[f].column = None),
      source_name |-> <<"S","A","P">>] :
        part \in {[column |-> None, confidence |-> Zero]}
                    \cup [column : {SapColumns.part_number}, confidence : Confidences],
        others \in [{"quantity", "unit", "description"} ->
                        {[column |-> None, confidence |-> Zero],
                         [column |-> <<"c","o","l">>, confidence |-> One]}]}

InitValidate ==
    /\ AppIdle
    /\ fn = "validate_mapping"
    /\ args \in MappingInputs
    /\ ret = <<>>

CallValidateMapping ==
    /\ fn = "validate_mapping"
    /\ ret = <<>>
    /\ ret' = <<validate_mapping(args)>>
    /\ UNCHANGED <<fn, args>>
    /\ AppUnchanged

NextValidate == CallValidateMapping

SpecValidate == InitValidate /\ [][NextValidate]_vars

-----------------------------------------------------------------------------
(* find_similar_columns applied to the column names of a dataset and the
   patterns of one field *)

InitFind ==
    /\ AppIdle
    /\ fn = "find_similar_columns"
    /\ \E df_columns \in ColumnLists, field \in DOMAIN COLUMN_PATTERNS :
          args = [df_columns |-> df_columns,
                  field |-> field,
                  target_patterns |-> COLUMN_PATTERNS[field],
                  threshold |-> SIMILARITY_THRESHOLD]
    /\ ret = <<>>

CallFindSimilarColumns ==
    /\ fn = "find_similar_columns"
    /\ ret = <<>>
    /\ ret' = <<find_similar_columns(args.df_columns, args.target_patterns,
                                     args.threshold)>>
    /\ UNCHANGED <<fn, args>>
    /\ AppUnchanged

NextFind == CallFindSimilarColumns

SpecFind == InitFind /\ [][NextFind]_vars
-----------------------------------------------------------------------------
(* generate_status_report: summary statistics of a comparison table *)

\* Series.str.contains(pat, na=False) on one cell: a missing cell (None)
\* counts as no match
StrContains(cell, pat, na) == IF cell = None THEN na ELSE Contains(cell, pat)

RECURSIVE CountRows(_, _, _)
\* len(df[df['Status'].str.contains(pat, na=na)])
CountRows(rows, pat, na) ==
    IF Len(rows) = 0 THEN 0
    ELSE (IF StrContains(rows[1].Status, pat, na) THEN 1 ELSE 0)
            + CountRows(Tail(rows), pat, na)

\* the percentage with an empty table counted as 100 percent
Porcentaje_EmptyIsAll(count, total) ==
    IF total > 0
    THEN LET q == (count * 10000) \div total
             rem2 == 2 * ((count * 10000) % total)
         IN  IF rem2 > total \/ (rem2 = total /\ q % 2 = 1) THEN q + 1 ELSE q
    ELSE 10000

\* round(count / total * 100, 2) if total > 0 else 0, in hundredths of a
\* percent (ties go to the even hundredth)
Porcentaje(count, total) ==
    IF total > 0
    THEN LET q == (count * 10000) \div total
             rem2 == 2 * ((count * 10000) % total)
         IN  IF rem2 > total \/ (rem2 = total /\ q % 2 = 1) THEN q + 1 ELSE q
    ELSE 0

\* the report whose three counts are taken with the given na
StatusReport(df_comparison, na) ==
    LET total == Len(df_comparison)
        correct == CountRows(df_comparison, <<"C","o","r","r","e","c","t","o">>, na)
        falta == CountRows(df_comparison, <<"F","a","l","t","a">>, na)
        sobra == CountRows(df_comparison, <<"S","o","b","r","a">>, na)
        total_issues == falta + sobra
    IN  ("Total Materiales" :> total)
        @@ ("Correctos" :> correct)
        @@ ("Faltantes/Diferencias (-)" :> falta)
        @@ ("Sobrantes/Excedentes (+)" :> sobra)
        @@ ("Total con Problemas" :> total_issues)
        @@ ("Porcentaje Correcto" :> Porcentaje(correct, total))
        @@ ("Porcentaje con Problemas" :> Porcentaje(total_issues, total))
        @@ ("Faltantes en SAP" :> 0)
        @@ ("Faltantes en Software B" :> falta)
        @@ ("Discrepancias" :> sobra)

\* generate_status_report with a missing Status counted as a match
generate_status_report_NaTrue(df_comparison) == StatusReport(df_comparison, TRUE)

generate_status_report(df_comparison) == StatusReport(df_comparison, FALSE)

-----------------------------------------------------------------------------
(* generate_status_report applied to a table *)

\* rows of the table of one call
MaxReportRows == 3

\* Status cells: the three texts compare_boms writes, and what the data
\* editor's text column can leave in the cell afterwards
StatusPool ==
    {StatusText("correct"), StatusText("falta"), StatusText("sobra"),
     None, <<>>, <<"O","K">>, <<"c","o","r","r","e","c","t","o">>,
     <<"F","a","l","t","a"," ","/"," ","S","o","b","r","a">>}

ReportTables ==
    UNION {[1..n -> [Part_Number : {<<"P","1">>}, Status : StatusPool]]
           : n \in 0..MaxReportRows}

InitReport ==
    /\ AppIdle
    /\ fn = "generate_status_report"
    /\ args \in ReportTables
    /\ ret = <<>>

CallGenerateStatusReport ==
    /\ fn = "generate_status_report"
    /\ ret = <<>>
    /\ ret' = <<generate_status_report(args)>>
    /\ UNCHANGED <<fn, args>>
    /\ AppUnchanged

NextReport == CallGenerateStatusReport

SpecReport == InitReport /\ [][NextReport]_vars

-----------------------------------------------------------------------------
(* generate_status_report applied to the table compare_boms returned *)

CallGenerateStatusReportOfResult ==
    /\ fn = "compare_boms"
    /\ Len(ret) = 1
    /\ ret[1].error = ""
    /\ ret' = Append(ret, generate_status_report(ret[1].rows))
    /\ UNCHANGED <<fn, args>>
    /\ AppUnchanged

NextCompareReport == CallCompareBoms \/ CallGenerateStatusReportOfResult

SpecCompareReport == InitCompare /\ [][NextCompareReport]_vars

-----------------------------------------------------------------------------
(* modules/data_handler.py: load_file and validate_dataframe *)

SUPPORTED_FORMATS == {<<".","x","l","s","x">>, <<".","x","l","s">>, <<".","c","s","v">>}

\* Path(filename).suffix: from the last dot of the name, '' when there is
\* none or the name starts with its only dot
Suffix(filename) ==
    LET dots == {i \in 2..Len(filename) : filename[i] = "."}
    IN  IF dots = {} THEN <<>>
        ELSE SubSeq(filename, CHOOSE i \in dots : \A j \in dots : j <= i, Len(filename))

\* the value of df when load_file returns (None, error)
NoDataFrame == [columns |-> None, rows |-> <<>>]

\* df.empty: no rows or no columns
IsEmpty(df) == Len(df.rows) = 0 \/ Len(df.columns) = 0

\* detect_material_columns, on the column names of the preview
detect_material_columns(header) ==
    {header[j] : j \in {k \in 1..Len(header) :
        \E p \in 1..Len(COLUMN_PATTERNS["part_number"]) :
            Contains(strip(lower(header[k])), COLUMN_PATTERNS["part_number"][p])}}

\* cell texts the reader takes as missing
NaTexts == {<<>>, <<"N","A">>, <<"N","a","N">>, <<"n","a","n">>, <<"N","U","L","L">>}

\* pd.read_csv(file, dtype={col: str for col in material_cols}): a column is
\* numeric when it is not forced to text and every cell that is not missing
\* is a number; every other column holds its texts as written
ReadTable(content, material_cols) ==
    LET header == content.header
        lines == content.lines
        numeric == {j \in 1..Len(header) :
                       /\ header[j] \notin material_cols
                       /\ \A i \in 1..Len(lines) :
                             lines[i][j] \in NaTexts \/ IsNumericText(lines[i][j])}
        Cell(i, j) == IF lines[i][j] \in NaTexts THEN NaN
                      ELSE IF j \in numeric THEN Num(ParseNumber(lines[i][j]))
                      ELSE Str(lines[i][j])
    IN  [columns |-> header,
         rows |-> [i \in 1..Len(lines) |->
                     [c \in {header[j] : j \in 1..Len(header)} |->
                         Cell(i, CHOOSE j \in 1..Len(header) : header[j] = c)]]]

\* lines 93-100 of load_file: column names stripped, the cells of the object
\* columns turned into stripped text, the text 'nan' into the missing marker
CleanTable(df, material_cols) ==
    LET object == {c \in DOMAIN df.columns :
                      \/ df.columns[c] \in material_cols
                      \/ \E i \in 1..Len(df.rows) : df.rows[i][df.columns[c]].t = "str"}
        names == [c \in DOMAIN df.columns |-> strip(df.columns[c])] \o <<>>
        Clean(c, x) ==
            IF c \in object
            THEN LET text == strip(PyStr(x))
                 IN  IF text = <<"n","a","n">> THEN NaN ELSE Str(text)
            ELSE x
    IN  [columns |-> names,
         rows |-> [i \in 1..Len(df.rows) |->
                     [n \in {names[c] : c \in DOMAIN names} |->
                         LET c == CHOOSE k \in DOMAIN names : names[k] = n
                         IN  Clean(c, df.rows[i][df.columns[c]])]]]

\* load_file: (DataFrame, None) or (None, error message)
load_file(file, filename) ==
    LET file_ext == lower(Suffix(filename))
        material_cols == detect_material_columns(file.content.header)
        df == ReadTable(file.content, material_cols)
    IN  IF file_ext \notin SUPPORTED_FORMATS
        THEN [df |-> NoDataFrame, error |-> "Formato no soportado"]
        ELSE IF file.content.kind # "table"
        THEN [df |-> NoDataFrame, error |-> "Error al cargar el archivo"]
        ELSE IF IsEmpty(df)
        THEN [df |-> NoDataFrame, error |-> "El archivo esta vacio"]
        ELSE [df |-> CleanTable(df, material_cols), error |-> "None"]

\* validate_dataframe: the error message, or None
validate_dataframe(df, source_name) ==
    IF df = NoDataFrame \/ IsEmpty(df) THEN "El DataFrame esta vacio"
    ELSE IF Len(df.columns) = 0 THEN "El DataFrame no tiene columnas"
    ELSE "None"

-----------------------------------------------------------------------------
(* The files a user can put in either uploader *)

Table(name, header, lines) ==
    [name |-> name, content |-> [kind |-> "table", header |-> header, lines |-> lines]]

SapExport ==
    Table(<<"s","a","p",".","c","s","v">>,
          << <<"C","o","m","p","o","n","e","n","t"," ","n","u","m","b","e","r">>,
             <<"C","o","m","p","o","n","e","n","t"," ","q","u","a","n","t","i","t","y">>,
             <<"C","o","m","p","o","n","e","n","t"," ","U","o","M">>,
             <<"D","e","s","c","r","i","p","t","i","o","n">> >>,
          << << <<"0","0","1">>, <<"1","0","0">>, <<"P","C","S">>, <<"B","o","l","t">> >>,
             << <<"P","2">>, <<"5">>, <<"K","G">>, <<"G","l","u","e"," ">> >> >>)

\* an SAP export without the quantity column
SapExportNoQuantity ==
    Table(<<"s","a","p","_","n","o","q","t","y",".","c","s","v">>,
          << <<"C","o","m","p","o","n","e","n","t"," ","n","u","m","b","e","r">>,
             <<"C","o","m","p","o","n","e","n","t"," ","U","o","M">>,
             <<"D","e","s","c","r","i","p","t","i","o","n">> >>,
          << << <<"0","0","1">>, <<"P","C","S">>, <<"B","o","l","t">> >> >>)

HplmExport ==
    Table(<<"h","p","l","m",".","C","S","V">>,
          << <<" ","E","R","P"," ","P","a","r","t"," ","N","u","m","b","e","r">>,
             <<"Q","u","a","n","t","i","t","y">>,
             <<"U","n","i","t"," ","O","f"," ","M","e","a","s","u","r","e">>,
             <<"D","e","s","c","r","i","p","t","i","o","n">> >>,
          << << <<"0","0","1">>, <<"1","0","0">>, <<"p","c">>, <<"B","o","l","t">> >> >>)

\* a table none of whose columns is a part number
NotesTable ==
    Table(<<"n","o","t","e","s",".","c","s","v">>,
          << <<"R","e","m","a","r","k","s">>, <<"Q","t","y",".">> >>,
          << << <<"c","h","e","c","k">>, <<"1">> >> >>)

\* a table in a format the loader does not read
TextFile ==
    Table(<<"b","o","m",".","t","x","t">>,
          << <<"E","R","P"," ","P","a","r","t"," ","N","u","m","b","e","r">>,
             <<"Q","u","a","n","t","i","t","y">> >>,
          << << <<"0","0","1">>, <<"1","0","0">> >> >>)

\* a header without data rows
EmptyTable ==
    Table(<<"e","m","p","t","y",".","c","s","v">>,
          << <<"E","R","P"," ","P","a","r","t"," ","N","u","m","b","e","r">>,
             <<"Q","u","a","n","t","i","t","y">> >>,
          <<>>)

\* a workbook the reader raises on
BrokenWorkbook ==
    [name |-> <<"b","r","o","k","e","n",".","x","l","s","x">>,
     content |-> [kind |-> "corrupt", header |-> <<>>, lines |-> <<>>]]

FileCatalogue ==
    {SapExport, SapExportNoQuantity, HplmExport,
     NotesTable, TextFile, EmptyTable, BrokenWorkbook}

-----------------------------------------------------------------------------
(* app.py: one run of the script *)

Sources == [SAP |-> <<"S","A","P">>, HPLM |-> <<"H","P","L","M">>]

\* load_file and map_bom_columns depend on the file only: their results for
\* the files of the catalogue
LoadFileResults == [f \in FileCatalogue |-> load_file(f, f.name)]

MappingResults ==
    [f \in {g \in FileCatalogue : LoadFileResults[g].error = "None"} |->
        [source \in DOMAIN Sources |->
            The({map_bom_columns(df, Sources[source]) : df \in {LoadFileResults[f].df}})]]

\* no edit made in the data editor
NoEdit == [row |-> 0, Status |-> None]

\* the script at its first line: the session as it stands, nothing called,
\* nothing shown
ScriptStart(sapf, sbf, state, from) ==
    [sap_file |-> sapf, software_b_file |-> sbf,
     session |-> state, results_from |-> from,
     calls |-> <<>>, messages |-> <<>>,
     returned |-> FALSE, rerun |-> FALSE, button |-> FALSE, displayed |-> FALSE,
     df |-> [SAP |-> NoDataFrame, HPLM |-> NoDataFrame],
     mapping |-> <<>>]

\* st.error / st.success / st.info
Say(st, level, text) ==
    [st EXCEPT !.messages = Append(@, [level |-> level, text |-> text])]

Called(st, f, source, ok) ==
    [st EXCEPT !.calls = Append(@, [fn |-> f, source |-> source, ok |-> ok])]

Return(st) == [st EXCEPT !.returned = TRUE]

FileOf(st, source) == IF source = "SAP" THEN st.sap_file ELSE st.software_b_file

\* lines 89-98 with the script going on after a failed load
LoadFile_NoReturn(st, source) ==
    IF st.returned THEN st
    ELSE The({IF res.error # "None"
              THEN Say(Called([st EXCEPT !.df[source] = res.df],
                              "load_file", source, FALSE),
                       "error", <<"Error en archivo", source, res.error>>)
              ELSE Called([st EXCEPT !.df[source] = res.df],
                          "load_file", source, TRUE) :
              res \in {LoadFileResults[FileOf(st, source)]}})

\* lines 89-92 (SAP) and 95-98 (HPLM): load the file, stop on an error
LoadFile(st, source) ==
    IF st.returned THEN st
    ELSE The({IF res.error # "None"
              THEN Return(Say(Called([st EXCEPT !.df[source] = res.df],
                                     "load_file", source, FALSE),
                              "error", <<"Error en archivo", source, res.error>>))
              ELSE Called([st EXCEPT !.df[source] = res.df],
                          "load_file", source, TRUE) :
              res \in {LoadFileResults[FileOf(st, source)]}})

\* lines 101-104 (SAP) and 106-109 (HPLM)
ValidateDataFrame(st, source) ==
    IF st.returned THEN st
    ELSE The({IF error_val # "None"
              THEN Return(Say(Called(st, "validate_dataframe", source, FALSE),
                              "error", <<error_val, source>>))
              ELSE Called(st, "validate_dataframe", source, TRUE) :
              error_val \in {validate_dataframe(st.df[source], source)}})

\* lines 111-127
MapColumns(st) ==
    IF st.returned THEN st
    ELSE LET s1 == Say(st, "success", <<"Archivos cargados exitosamente">>)
             s2 == Called(Called(s1, "map_bom_columns", "SAP", TRUE),
                          "map_bom_columns", "HPLM", TRUE)
         IN  [s2 EXCEPT !.mapping =
                 [source \in DOMAIN Sources |->
                     MappingResults[FileOf(st, source)][source]]]

\* lines 138-149 with the script going on after an invalid mapping
ValidateMappings_NoReturn(st) ==
    IF st.returned THEN st
    ELSE The({
           IF ~sap[1]
           THEN Say(s1, "error", <<"Error en mapeo", "SAP">>)
           ELSE IF ~sb[1]
           THEN Say(s1, "error", <<"Error en mapeo", "HPLM">>)
           ELSE Say(s1, "success", <<"Mapeo de columnas completado exitosamente">>) :
           sap \in {validate_mapping(st.mapping["SAP"])},
           sb \in {validate_mapping(st.mapping["HPLM"])},
           s1 \in {Called(Called(st, "validate_mapping", "SAP",
                                  validate_mapping(st.mapping["SAP"])[1]),
                           "validate_mapping", "HPLM",
                           validate_mapping(st.mapping["HPLM"])[1])}})

\* lines 138-149: both mappings validated, then the script stops at the
\* first invalid one
ValidateMappings(st) ==
    IF st.returned THEN st
    ELSE The({
           IF ~sap[1]
           THEN Return(Say(s1, "error", <<"Error en mapeo", "SAP">>))
           ELSE IF ~sb[1]
           THEN Return(Say(s1, "error", <<"Error en mapeo", "HPLM">>))
           ELSE Say(s1, "success", <<"Mapeo de columnas completado exitosamente">>) :
           sap \in {validate_mapping(st.mapping["SAP"])},
           sb \in {validate_mapping(st.mapping["HPLM"])},
           s1 \in {Called(Called(st, "validate_mapping", "SAP",
                                  validate_mapping(st.mapping["SAP"])[1]),
                           "validate_mapping", "HPLM",
                           validate_mapping(st.mapping["HPLM"])[1])}})

\* lines 156-173: the button, and when it was clicked the comparison, the
\* report, the three session values and st.rerun(); an exception of
\* compare_boms ends the script
Comparison(st, clicked, order) ==
    IF st.returned THEN st
    ELSE IF ~clicked THEN [st EXCEPT !.button = TRUE]
    ELSE The({
           IF res.error # ""
           THEN Return(Say(Called([st EXCEPT !.button = TRUE],
                                  "compare_boms", "", FALSE),
                           "exception", <<res.error>>))
           ELSE [Say(Called(Called([st EXCEPT !.button = TRUE],
                                   "compare_boms", "", TRUE),
                            "generate_status_report", "", TRUE),
                     "success", <<"Comparacion completada">>)
                   EXCEPT
                     !.session = [comparison_results |-> <<res.rows>>,
                                  status_report |-> <<generate_status_report(res.rows)>>,
                                  edited_data |-> <<res.rows>>],
                     !.results_from = <<st.sap_file, st.software_b_file>>,
                     !.rerun = TRUE,
                     !.returned = TRUE] :
           res \in {compare_boms(st.df["SAP"], st.df["HPLM"],
                                 st.mapping["SAP"], st.mapping["HPLM"], order)}})

\* st.data_editor: the table shown with the user's edit of one Status cell
DataEditor(df_filtered, edit) ==
    IF edit.row \in 1..Len(df_filtered)
    THEN [df_filtered EXCEPT ![edit.row].Status = edit.Status]
    ELSE df_filtered

\* DataFrame.update(other): the cells of other that are not missing
\* overwrite, in place
DataFrameUpdate(this, other) ==
    [i \in 1..Len(this) |->
        [this[i] EXCEPT !.Status = IF other[i].Status = None THEN @
                                   ELSE other[i].Status]]

\* lines 176-264 with edited_data the very table stored as comparison_results
\* (line 170 without .copy()): the update reaches both
Display_SharedTable(st, edit) ==
    IF st.returned \/ st.session.comparison_results = <<>> THEN st
    ELSE LET df_filtered == st.session.edited_data[1]
             edited_df == DataEditor(df_filtered, edit)
             s0 == [st EXCEPT !.displayed = TRUE]
         IN  IF edited_df # df_filtered
             THEN [Say(s0, "success", <<"Cambios guardados en memoria">>)
                     EXCEPT !.session.edited_data =
                               <<DataFrameUpdate(df_filtered, edited_df)>>,
                            !.session.comparison_results =
                               <<DataFrameUpdate(df_filtered, edited_df)>>]
             ELSE s0

\* lines 176-264: the results, when the session holds any, are displayed and
\* an edit is written to edited_data (tables of this model have fewer rows
\* than MAX_ROWS_WITHOUT_FILTER, so the editor shows all of edited_data)
Display(st, edit) ==
    IF st.returned \/ st.session.comparison_results = <<>> THEN st
    ELSE LET df_filtered == st.session.edited_data[1]
             edited_df == DataEditor(df_filtered, edit)
             s0 == [st EXCEPT !.displayed = TRUE]
         IN  IF edited_df # df_filtered
             THEN [Say(s0, "success", <<"Cambios guardados en memoria">>)
                     EXCEPT !.session.edited_data =
                               <<DataFrameUpdate(df_filtered, edited_df)>>]
             ELSE s0

\* one run of main() from its first line to its return, statement after
\* statement (each statement reads the script as the one before left it)
Script(sapf, sbf, state, from, clicked, edit, order) ==
    IF sapf # NoFile /\ sbf # NoFile
    THEN The({Display(s7, edit) :
           s7 \in {Comparison(s6, clicked, order) :
             s6 \in {ValidateMappings(s5) :
               s5 \in {MapColumns(s4) :
                 s4 \in {ValidateDataFrame(s3, "HPLM") :
                   s3 \in {ValidateDataFrame(s2, "SAP") :
                     s2 \in {LoadFile(s1, "HPLM") :
                       s1 \in {LoadFile(s0, "SAP") :
                         s0 \in {ScriptStart(sapf, sbf, state, from)}}}}}}}}})
    ELSE Say(ScriptStart(sapf, sbf, state, from), "info",
             <<"Por favor, cargue ambos archivos BOM">>)

RECURSIVE main(_, _, _, _, _, _, _)
\* main() as a user action runs it: st.rerun() starts the script again, with
\* the session the first run left
main(sapf, sbf, state, from, clicked, edit, order) ==
    The({IF first.rerun
         THEN The({[second EXCEPT !.calls = first.calls \o @,
                                  !.messages = first.messages \o @] :
                   second \in {main(sapf, sbf, first.session, first.results_from,
                                    FALSE, NoEdit, order)}})
         ELSE first :
         first \in {Script(sapf, sbf, state, from, clicked, edit, order)}})

-----------------------------------------------------------------------------
(* The application: uploads, the comparison button and the data editor *)

\* what the user can type into a Status cell (None: the cell emptied)
EditPool == {None, <<"O","K">>}

Init ==
    /\ sap_file = NoFile
    /\ software_b_file = NoFile
    /\ session = EmptySession
    /\ run = NoRun
    /\ results_from = <<>>
    /\ fn = "main"
    /\ args = <<>>
    /\ ret = <<>>

\* a user action: the widgets take their new values and main() runs
Interaction(sapf, sbf, clicked, edit, order) ==
    \E st \in {main(sapf, sbf, session, results_from, clicked, edit, order)} :
        /\ sap_file' = sapf
        /\ software_b_file' = sbf
        /\ session' = st.session
        /\ results_from' = st.results_from
        /\ run' = [calls |-> st.calls, messages |-> st.messages,
                   button |-> st.button, displayed |-> st.displayed]
        /\ UNCHANGED <<fn, args, ret>>

UploadSap ==
    /\ fn = "main"
    /\ \E f \in FileCatalogue : Interaction(f, software_b_file, FALSE, NoEdit, <<>>)

UploadHplm ==
    /\ fn = "main"
    /\ \E f \in FileCatalogue : Interaction(sap_file, f, FALSE, NoEdit, <<>>)

RemoveSap ==
    /\ fn = "main"
    /\ sap_file # NoFile
    /\ Interaction(NoFile, software_b_file, FALSE, NoEdit, <<>>)

RemoveHplm ==
    /\ fn = "main"
    /\ software_b_file # NoFile
    /\ Interaction(sap_file, NoFile, FALSE, NoEdit, <<>>)

\* the button exists only in a run that reached line 156
ClickCompare ==
    /\ fn = "main"
    /\ run.button
    /\ \E df_sap \in {LoadFileResults[sap_file].df},
          df_software_b \in {LoadFileResults[software_b_file].df},
          mapping_sap \in {MappingResults[sap_file]["SAP"]},
          mapping_software_b \in {MappingResults[software_b_file]["HPLM"]} :
          \E order \in IterationOrders(
                           all_keys(df_sap, df_software_b,
                                    mapping_sap, mapping_software_b)) :
             Interaction(sap_file, software_b_file, TRUE, NoEdit, order)

\* the editor exists only in a run that displayed the results
EditTable ==
    /\ fn = "main"
    /\ run.displayed
    /\ \E i \in 1..Len(session.edited_data[1]), text \in EditPool :
          Interaction(sap_file, software_b_file, FALSE,
                      [row |-> i, Status |-> text], <<>>)

Next ==
    \/ UploadSap
    \/ UploadHplm
    \/ RemoveSap
    \/ RemoveHplm
    \/ ClickCompare
    \/ EditTable

Spec == Init /\ [][Next]_vars

-----------------------------------------------------------------------------
(* modules/data_handler.py: export_to_excel *)

EXCEL_SHEET_NAMES ==
    [summary |-> "Resumen",
     discrepancies |-> "Discrepancias",
     corrected |-> "Datos Corregidos",
     all_data |-> "Todos los Datos"]

\* column_order of compare_boms: the columns of a comparison table
column_order ==
    <<"Part_Number", "Status", "Issues", "SAP_Quantity", "HPLM_Quantity",
      "SAP_Unit", "HPLM_Unit", "SAP_Description", "HPLM_Description">>

\* the keys of the report of generate_status_report, in dictionary order
ReportKeys ==
    <<"Total Materiales", "Correctos", "Faltantes/Diferencias (-)",
      "Sobrantes/Excedentes (+)", "Total con Problemas", "Porcentaje Correcto",
      "Porcentaje con Problemas", "Faltantes en SAP", "Faltantes en Software B",
      "Discrepancias">>

\* the value of a column in a row of a comparison table, as a cell
CellOf(row, col) ==
    IF col \in {"SAP_Quantity", "HPLM_Quantity", "SAP_Description", "HPLM_Description"}
    THEN row[col]
    ELSE IF row[col] = None THEN NaN ELSE Str(row[col])

\* DataFrame.fillna(""), on one cell
fillna(x) == IF isna(x) THEN Str(<<>>) ELSE x

\* sanitize_cell_value
sanitize_cell_value(value) == IF isna(value) THEN Str(<<>>) ELSE value

\* a cell of a worksheet without a value
Blank == [t |-> "blank", v |-> 0]

\* worksheet.write(row, col, value, format): the empty string is written as
\* a blank cell
WorksheetWrite(value) == IF value = Str(<<>>) THEN Blank ELSE value

\* a sheet written from a table: the header row and one row of cells for
\* each row of the table
TableSheet(rows) ==
    [header |-> column_order,
     cells |-> [i \in 1..Len(rows) |->
                  [j \in 1..Len(column_order) |->
                      WorksheetWrite(sanitize_cell_value(
                          fillna(CellOf(rows[i], column_order[j]))))]]]

\* pd.DataFrame([df_summary]).to_excel: one row with the values of the report
SummarySheet(df_summary) ==
    [header |-> ReportKeys,
     cells |-> << [j \in 1..Len(ReportKeys) |-> Num(df_summary[ReportKeys[j]])] >>]

\* export_to_excel: the workbook, a sheet for each name it has.  The sheet
\* of the discrepancies is written only when df_discrepancies has rows.
export_to_excel(df_all, df_discrepancies, df_summary) ==
    [name \in {EXCEL_SHEET_NAMES.summary, EXCEL_SHEET_NAMES.all_data}
              \cup (IF Len(df_discrepancies) > 0
                    THEN {EXCEL_SHEET_NAMES.discrepancies} ELSE {}) |->
        CASE name = EXCEL_SHEET_NAMES.summary -> SummarySheet(df_summary)
          [] name = EXCEL_SHEET_NAMES.discrepancies -> TableSheet(df_discrepancies)
          [] OTHER -> TableSheet(df_all)]

-----------------------------------------------------------------------------
(* modules/floor_validation.py: generate_floor_validation_checklist *)

\* Series.str.contains('Discrepancia|Faltante', na=False) on one cell
MatchesFloorFilter(status) ==
    \/ StrContains(status, <<"D","i","s","c","r","e","p","a","n","c","i","a">>, FALSE)
    \/ StrContains(status, <<"F","a","l","t","a","n","t","e">>, FALSE)

\* the validation columns that a comparison table has, in checklist order,
\* with the columns the checklist adds
validation_columns ==
    <<"Validado en Piso", "Part_Number", "SAP_Quantity", "Cantidad Real",
      "SAP_Unit", "SAP_Description", "Status", "Issues", "Observaciones",
      "Validado Por", "Fecha">>

\* the cell the checklist writes for a column of a row
ChecklistCell(row, col) ==
    CASE col = "Validado en Piso" -> Str(<<"U+2610">>)
      [] col \in {"Cantidad Real", "Observaciones", "Validado Por", "Fecha"} -> Blank
      [] OTHER -> IF isna(CellOf(row, col)) THEN Blank
                  ELSE WorksheetWrite(Str(PyStr(CellOf(row, col))))

\* the orders sort_values('Part Number') can leave the rows in: ascending
\* part numbers, rows of one part number in any order
SortedByPartNumber(rows) ==
    {s \in IterationOrders({i : i \in 1..Len(rows)}) :
        \A m, n \in 1..Len(rows) :
            m < n => ~TextLess(rows[s[n]].Part_Number, rows[s[m]].Part_Number)}

\* generate_floor_validation_checklist, the rows taken in the order `sorted`:
\* the number of items announced, the header and the data rows of the sheet
generate_floor_validation_checklist(df_comparison, include_correct, sorted) ==
    LET df_validation ==
            IF include_correct THEN df_comparison
            ELSE SelectSeq(df_comparison, LAMBDA r : MatchesFloorFilter(r.Status))
    IN  [total |-> Len(df_validation),
         header |-> validation_columns,
         cells |-> [i \in 1..Len(df_validation) |->
                      [j \in 1..Len(validation_columns) |->
                          ChecklistCell(df_validation[sorted[i]],
                                        validation_columns[j])]]]

-----------------------------------------------------------------------------
(* app.py: the downloads of a comparison table *)

\* Series.str.contains('Falta|Sobra', na=False) on one cell
MatchesIssueFilter(status) ==
    \/ StrContains(status, <<"F","a","l","t","a">>, FALSE)
    \/ StrContains(status, <<"S","o","b","r","a">>, FALSE)

\* edited_data[edited_data['Status'].str.contains('Falta|Sobra', na=False)]
IssuesOnly(rows) == SelectSeq(rows, LAMBDA r : MatchesIssueFilter(r.Status))

\* the comparison returned a table, which the session holds as edited_data
TableReady == fn = "compare_boms" /\ Len(ret) = 1 /\ ret[1].error = ""

\* the "Reporte Completo" download
DownloadReport ==
    /\ TableReady
    /\ \E rows \in {ret[1].rows} :
          ret' = Append(ret, [download |-> "export_to_excel",
                              file |-> export_to_excel(rows, IssuesOnly(rows),
                                                       generate_status_report(rows))])
    /\ UNCHANGED <<fn, args>>
    /\ AppUnchanged

\* the "Checklist de Piso" download
DownloadChecklist ==
    /\ TableReady
    /\ \E rows \in {ret[1].rows} :
          \E sorted \in SortedByPartNumber(
                            SelectSeq(rows, LAMBDA r : MatchesFloorFilter(r.Status))) :
              ret' = Append(ret, [download |-> "generate_floor_validation_checklist",
                                  file |-> generate_floor_validation_checklist(
                                               rows, FALSE, sorted)])
    /\ UNCHANGED <<fn, args>>
    /\ AppUnchanged

NextDownloads == CallCompareBoms \/ DownloadReport \/ DownloadChecklist

SpecDownloads == InitCompare /\ [][NextDownloads]_vars
-----------------------------------------------------------------------------
(* app.py: the exports a run of the script prepares once it has displayed
   the results *)

\* lines 275-281: the workbook of "Reporte Completo", from the session as
\* the editor left it
excel_buffer ==
    export_to_excel(session.edited_data[1], IssuesOnly(session.edited_data[1]),
                    session.status_report[1])

\* lines 333-334: the one row of "Resumen", pd.DataFrame([status_report])
csv_summary == SummarySheet(session.status_report[1])

-----------------------------------------------------------------------------
(* Properties *)

\* C9: normalize_unit is idempotent: applying it to its own result returns
\* that result again, for every raw unit.
C9_NormalizeUnitIdempotent ==
    fn = "normalize_unit" => \A i \in 2..Len(ret) : ret[i] = ret[i - 1]

\* a padded lower-case synonym was normalized to its standard unit, and
\* normalized again
C9_Witness ==
    /\ fn = "normalize_unit"
    /\ Len(ret) = 2
    /\ args.t = "str"
    /\ args.v # strip(args.v)
    /\ ret[1] # upper(strip(args.v))

\* C10: validate_quantity is symmetric for positive numeric quantities,
\* whatever the tolerance.
C10_ValidateQuantitySymmetric ==
    (/\ fn = "validate_quantity"
     /\ Len(ret) = 2
     /\ args.qty1.t = "num" /\ args.qty1.v > 0
     /\ args.qty2.t = "num" /\ args.qty2.v > 0)
    => ret[1] = ret[2]

\* two different positive quantities within the tolerance, compared both ways
C10_Witness ==
    /\ fn = "validate_quantity"
    /\ Len(ret) = 2
    /\ args.qty1.t = "num" /\ args.qty1.v > 0
    /\ args.qty2.t = "num" /\ args.qty2.v > 0
    /\ args.qty1.v # args.qty2.v
    /\ args.tolerance = QUANTITY_TOLERANCE
    /\ ret[1] = TRUE

-----------------------------------------------------------------------------
(* Properties of compare_boms *)

CompareReturned == fn = "compare_boms" /\ Len(ret) = 1 /\ ret[1].error = ""

\* the unit cell that stands for a normalized unit
ShownUnit(norm_unit) == IF norm_unit = UNASSIGNED THEN <<>> ELSE norm_unit

\* the grouped keys of the two inputs of the call
InputKeys ==
    LET g == Grouped(args.df_sap, args.df_software_b,
                     args.mapping_sap, args.mapping_software_b)
    IN  GroupedKeys(g.sap.lines) \cup GroupedKeys(g.sb.lines)

\* C1: the rows returned by compare_boms are, key for key, the union of the
\* grouped (part, normalized unit) keys of the two sides: one row for every
\* key, and no row for anything else.
C1_KeysAreUnion ==
    CompareReturned =>
        LET rows == ret[1].rows
            shown(k) == <<k[1], ShownUnit(k[2])>>
            of(i) == <<rows[i].Part_Number, rows[i].SAP_Unit>>
        IN  /\ Len(rows) = Cardinality(InputKeys)
            /\ \A i \in 1..Len(rows) : \E k \in InputKeys : of(i) = shown(k)
            /\ \A k \in InputKeys :
                  Cardinality({i \in 1..Len(rows) : of(i) = shown(k)})
                      = Cardinality({k2 \in InputKeys : shown(k2) = shown(k)})

\* a table with a key of the SAP side only and a key of the HPLM side only
C1_Witness ==
    /\ CompareReturned
    /\ \E i, j \in 1..Len(ret[1].rows) :
          /\ isna(ret[1].rows[i].SAP_Quantity) /\ ~isna(ret[1].rows[i].HPLM_Quantity)
          /\ isna(ret[1].rows[j].HPLM_Quantity) /\ ~isna(ret[1].rows[j].SAP_Quantity)

\* the quantity of a side of a row, an absent side counting as 0
QtyOf(cell) == IF isna(cell) THEN 0 ELSE cell.v

EnHplm == <<" ","e","n"," ","H","P","L","M">>

\* whether the issue text is "<word> <number> en HPLM" with that number
IssueReports(text, word, number) ==
    LET head == word \o <<" ">>
        mid == SubSeq(text, Len(head) + 1, Len(text) - Len(EnHplm))
    IN  /\ Len(text) > Len(head) + Len(EnHplm)
        /\ SubSeq(text, 1, Len(head)) = head
        /\ SubSeq(text, Len(text) - Len(EnHplm) + 1, Len(text)) = EnHplm
        /\ IsNumericText(mid)
        /\ mid = strip(mid)
        /\ ParseNumber(mid) = number

IsCorrect(row) == row.Status = StatusText("correct") /\ row.Issues = <<"O","K">>

IsShortage(row, number) ==
    row.Status = StatusText("falta") /\ IssueReports(row.Issues, STATUS_LABELS.falta, number)

IsSurplus(row, number) ==
    row.Status = StatusText("sobra") /\ IssueReports(row.Issues, STATUS_LABELS.sobra, number)

\* the classification of every row against a condition for "correct"
Classified(correctWhen(_, _)) ==
    CompareReturned =>
        \A i \in 1..Len(ret[1].rows) :
            LET row == ret[1].rows[i]
                r == QtyOf(row.SAP_Quantity)
                c == QtyOf(row.HPLM_Quantity)
            IN  /\ IsCorrect(row) <=> correctWhen(r, c)
                /\ ~correctWhen(r, c) =>
                      /\ r - c > 0 => IsShortage(row, r - c)
                      /\ r - c < 0 => IsSurplus(row, c - r)
                      /\ r - c # 0

InBand(r, c) ==
    /\ Max(r, c) > 0
    /\ Abs(r - c) * QUANTITY_TOLERANCE.d <= Max(r, c) * QUANTITY_TOLERANCE.n

\* C2 as stated: a row is correct with issue OK exactly when the difference
\* is within the inclusive tolerance band of a positive maximum, or both
\* quantities are 0; otherwise it is a shortage reporting r - c or a
\* surplus reporting c - r.
C2_AsStated == Classified(LAMBDA r, c : InBand(r, c) \/ (r = 0 /\ c = 0))

\* C2 amended: a row is correct with issue OK exactly when the difference is
\* within the inclusive tolerance band of a positive maximum, or the maximum
\* is not positive and the two quantities are equal (both 0, or the same
\* negative number); otherwise it is a shortage reporting r - c when
\* r - c > 0 and a surplus reporting c - r when r - c < 0.
C2_Classification ==
    Classified(LAMBDA r, c : InBand(r, c) \/ (Max(r, c) <= 0 /\ r = c))

\* a row that is correct on the inclusive bound of the band, beside a row
\* that is not correct
C2_Witness ==
    /\ CompareReturned
    /\ \E i, j \in 1..Len(ret[1].rows) :
          LET ri == ret[1].rows[i]
              rj == ret[1].rows[j]
          IN  /\ IsCorrect(ri)
              /\ QtyOf(ri.SAP_Quantity) # QtyOf(ri.HPLM_Quantity)
              /\ Abs(QtyOf(ri.SAP_Quantity) - QtyOf(ri.HPLM_Quantity)) * QUANTITY_TOLERANCE.d
                    = Max(QtyOf(ri.SAP_Quantity), QtyOf(ri.HPLM_Quantity)) * QUANTITY_TOLERANCE.n
              /\ ~IsCorrect(rj)

\* C6: whenever both mappings pass validate_mapping, quantity, unit or
\* description unmapped included, compare_boms returns a table and raises
\* nothing.
C6_CompletesWhenMappingsValid ==
    (/\ fn = "compare_boms"
     /\ Len(ret) = 1
     /\ validate_mapping(args.mapping_sap)[1]
     /\ validate_mapping(args.mapping_software_b)[1])
    => ret[1].error = ""

-----------------------------------------------------------------------------
(* Properties of the column mapper *)

\* C7: the mapping of map_bom_columns is valid exactly when part_number has
\* a column, and missing_columns lists exactly the canonical fields without
\* a column, each with confidence 0.
C7_MappingValidity ==
    (fn = "map_bom_columns" /\ Len(ret) = 1) =>
        LET m == ret[1]
        IN  /\ m.is_valid <=> m.part_number.column # None
            /\ m.missing_columns = SelectSeq(CanonicalFields, LAMBDA f : m[f].column = None)
            /\ \A i \in 1..Len(m.missing_columns) :
                  m[m.missing_columns[i]].confidence = Zero

\* a valid mapping with a missing field
C7_Witness ==
    /\ fn = "map_bom_columns"
    /\ Len(ret) = 1
    /\ ret[1].is_valid
    /\ Len(ret[1].missing_columns) > 0

\* C8: validate_mapping fails with a message when part_number is unmapped
\* and when its confidence is below SIMILARITY_THRESHOLD, and returns
\* (True, "") otherwise, whatever the other three fields are.
C8_ValidateMapping ==
    (fn = "validate_mapping" /\ Len(ret) = 1) =>
        IF \/ args.part_number.column = None
           \/ RatLess(args.part_number.confidence, SIMILARITY_THRESHOLD)
        THEN ret[1][1] = FALSE /\ Len(ret[1][2]) > 0
        ELSE ret[1] = <<TRUE, <<>> >>

\* a mapped part number refused for its confidence, other fields unmapped
C8_Witness ==
    /\ fn = "validate_mapping"
    /\ Len(ret) = 1
    /\ args.part_number.column # None
    /\ args.quantity.column = None
    /\ ret[1][1] = FALSE

-----------------------------------------------------------------------------
(* generate_status_report: the counts and the rows *)

ReportReturned == fn = "generate_status_report" /\ Len(ret) = 1

\* how many of the three status labels the Status cell contains
LabelsIn(cell) ==
    Cardinality({s \in DOMAIN STATUS_LABELS :
                    cell # None /\ Contains(cell, STATUS_LABELS[s])})

RECURSIVE SumLabelsIn(_)
SumLabelsIn(rows) ==
    IF Len(rows) = 0 THEN 0 ELSE LabelsIn(rows[1].Status) + SumLabelsIn(Tail(rows))

CountsSum(report) ==
    report["Correctos"] + report["Faltantes/Diferencias (-)"]
        + report["Sobrantes/Excedentes (+)"]

\* C3 as stated: for every row sequence, also one whose Status cells were
\* overwritten or emptied, Correctos + Faltantes + Sobrantes = Total
\* Materiales and Total con Problemas = Faltantes + Sobrantes.
C3_AsStated ==
    ReportReturned =>
        /\ CountsSum(ret[1]) = ret[1]["Total Materiales"]
        /\ ret[1]["Total con Problemas"] =
              ret[1]["Faltantes/Diferencias (-)"] + ret[1]["Sobrantes/Excedentes (+)"]

\* C3: generate_status_report counts a row once in each category whose label
\* its Status text contains and a missing Status in none: the three counts
\* add up to the number of rows when every Status holds exactly one label
\* (as the rows of compare_boms do), Total Materiales is the number of rows
\* and Total con Problemas = Faltantes + Sobrantes always.
C3_Partition ==
    ReportReturned =>
        /\ ret[1]["Total Materiales"] = Len(args)
        /\ CountsSum(ret[1]) = SumLabelsIn(args)
        /\ (\A i \in 1..Len(args) : LabelsIn(args[i].Status) = 1)
              => CountsSum(ret[1]) = ret[1]["Total Materiales"]
        /\ ret[1]["Total con Problemas"] =
              ret[1]["Faltantes/Diferencias (-)"] + ret[1]["Sobrantes/Excedentes (+)"]

\* a report of three rows as compare_boms writes them, one of each status
C3_Witness ==
    /\ ReportReturned
    /\ Len(args) = 3
    /\ {args[i].Status : i \in 1..3} =
          {StatusText("correct"), StatusText("falta"), StatusText("sobra")}
    /\ ret[1]["Correctos"] = 1
    /\ ret[1]["Total con Problemas"] = 2

-----------------------------------------------------------------------------
(* The application flow: what a run of main() calls, and when it stops *)

CallsOf(f) == {i \in 1..Len(run.calls) : run.calls[i].fn = f}

BothUploaded == sap_file # NoFile /\ software_b_file # NoFile

LastMessageIsError ==
    Len(run.messages) > 0 /\ run.messages[Len(run.messages)].level = "error"

\* the part number unmapped, or mapped with a confidence below the threshold
InvalidMapping(mapping) ==
    \/ mapping.part_number.column = None
    \/ RatLess(mapping.part_number.confidence, SIMILARITY_THRESHOLD)

Loadable(f) == f \in FileCatalogue /\ LoadFileResults[f].error = "None"

\* C4: compare_boms is called only after validate_mapping succeeded for the
\* SAP and the HPLM mapping in the same run of the script; with the part
\* number of either uploaded dataset unmapped or below the threshold the run
\* ends with an error, offers no comparison, calls no compare_boms, and the
\* session never holds a result computed from such a pair.
C4_CompareOnlyAfterValidMappings ==
    fn = "main" =>
        /\ \A i \in CallsOf("compare_boms") :
              /\ \E j \in CallsOf("validate_mapping") :
                    j < i /\ run.calls[j].source = "SAP" /\ run.calls[j].ok
              /\ \E j \in CallsOf("validate_mapping") :
                    j < i /\ run.calls[j].source = "HPLM" /\ run.calls[j].ok
        /\ (\E j \in CallsOf("validate_mapping") : ~run.calls[j].ok)
              => /\ CallsOf("compare_boms") = {}
                 /\ LastMessageIsError
                 /\ ~run.button
                 /\ ~run.displayed
        /\ (/\ BothUploaded /\ Loadable(sap_file) /\ Loadable(software_b_file)
            /\ \/ InvalidMapping(MappingResults[sap_file]["SAP"])
               \/ InvalidMapping(MappingResults[software_b_file]["HPLM"]))
              => /\ CallsOf("compare_boms") = {}
                 /\ LastMessageIsError
                 /\ results_from # <<sap_file, software_b_file>>
        /\ (results_from = <<>>) <=> (session.comparison_results = <<>>)
        /\ results_from # <<>>
              => /\ Loadable(results_from[1]) /\ Loadable(results_from[2])
                 /\ ~InvalidMapping(MappingResults[results_from[1]]["SAP"])
                 /\ ~InvalidMapping(MappingResults[results_from[2]]["HPLM"])

\* a pair whose HPLM mapping is invalid, uploaded while the session holds
\* the result of an earlier pair: no comparison, nothing displayed
C4_Witness ==
    /\ fn = "main"
    /\ BothUploaded
    /\ \E j \in CallsOf("validate_mapping") :
          run.calls[j].source = "HPLM" /\ ~run.calls[j].ok
    /\ \E j \in CallsOf("validate_mapping") :
          run.calls[j].source = "SAP" /\ run.calls[j].ok
    /\ session.comparison_results # <<>>
    /\ results_from # <<sap_file, software_b_file>>

\* C5: when load_file returns an error for either file, or
\* validate_dataframe for either dataset, that call is the last of the run,
\* the run ends with an error message, and neither map_bom_columns nor
\* compare_boms is called; a pair with a file that does not load never gets
\* to the mapping.
C5_StopsBeforeMapping ==
    fn = "main" =>
        /\ \A i \in CallsOf("load_file") \cup CallsOf("validate_dataframe") :
              ~run.calls[i].ok
                 => /\ i = Len(run.calls)
                    /\ LastMessageIsError
                    /\ Len(run.messages) = 1
                    /\ CallsOf("map_bom_columns") = {}
                    /\ CallsOf("compare_boms") = {}
                    /\ ~run.button
                    /\ ~run.displayed
        /\ (BothUploaded /\ (~Loadable(sap_file) \/ ~Loadable(software_b_file)))
              => /\ LastMessageIsError
                 /\ CallsOf("map_bom_columns") = {}
                 /\ CallsOf("compare_boms") = {}
                 /\ ~run.button

\* the SAP file loaded, the HPLM file did not: the run stopped there, though
\* the session holds the result of an earlier pair
C5_Witness ==
    /\ fn = "main"
    /\ BothUploaded
    /\ Loadable(sap_file)
    /\ \E i \in CallsOf("load_file") :
          run.calls[i].source = "HPLM" /\ ~run.calls[i].ok
    /\ CallsOf("map_bom_columns") = {}
    /\ session.comparison_results # <<>>

-----------------------------------------------------------------------------
(* Keys of one side only, and the quantity cells of a row *)

\* the quantities of the grouped lines of one side that a key matches
LineQuantities(lines, key) ==
    {MatchingLines(lines, key)[n].qty : n \in 1..Len(MatchingLines(lines, key))}

\* the rows of a table that show a key
RowsShowing(rows, key) ==
    {i \in 1..Len(rows) :
        rows[i].Part_Number = key[1] /\ rows[i].SAP_Unit = ShownUnit(key[2])}

\* C11: a key of one side only still has a row, the absent side counting as
\* 0: a key of HPLM only with quantity q > 0 is a surplus reporting q, a key
\* of SAP only with quantity q > 0 is a shortage reporting q.
C11_OneSidedKeys ==
    CompareReturned =>
        \E g \in {Grouped(args.df_sap, args.df_software_b,
                          args.mapping_sap, args.mapping_software_b)} :
            LET sap_keys == GroupedKeys(g.sap.lines)
                sb_keys == GroupedKeys(g.sb.lines)
                rows == ret[1].rows
            IN  /\ \A k \in sb_keys \ sap_keys :
                      \E i \in RowsShowing(rows, k) :
                          /\ isna(rows[i].SAP_Quantity)
                          /\ rows[i].HPLM_Quantity.t = "num"
                          /\ rows[i].HPLM_Quantity.v \in LineQuantities(g.sb.lines, k)
                          /\ rows[i].HPLM_Quantity.v > 0
                                => IsSurplus(rows[i], rows[i].HPLM_Quantity.v)
                /\ \A k \in sap_keys \ sb_keys :
                      \E i \in RowsShowing(rows, k) :
                          /\ isna(rows[i].HPLM_Quantity)
                          /\ rows[i].SAP_Quantity.t = "num"
                          /\ rows[i].SAP_Quantity.v \in LineQuantities(g.sap.lines, k)
                          /\ rows[i].SAP_Quantity.v > 0
                                => IsShortage(rows[i], rows[i].SAP_Quantity.v)

\* a surplus row for a key of HPLM only beside a shortage row for a key of
\* SAP only, both with a positive quantity
C11_Witness ==
    /\ CompareReturned
    /\ \E i, j \in 1..Len(ret[1].rows) :
          LET ri == ret[1].rows[i]
              rj == ret[1].rows[j]
          IN  /\ isna(ri.SAP_Quantity) /\ ri.HPLM_Quantity.t = "num"
              /\ ri.HPLM_Quantity.v > 0 /\ IsSurplus(ri, ri.HPLM_Quantity.v)
              /\ isna(rj.HPLM_Quantity) /\ rj.SAP_Quantity.t = "num"
              /\ rj.SAP_Quantity.v > 0 /\ IsShortage(rj, rj.SAP_Quantity.v)

\* C12: the rows can be matched one to one with the keys so that, in every
\* row, SAP Quantity is null exactly when the key has no grouped line on the
\* SAP side and HPLM Quantity is null exactly when it has none on the HPLM
\* side; a side that has the key shows the number of its line, 0 included.
C12_NullIffAbsent ==
    CompareReturned =>
        \E g \in {Grouped(args.df_sap, args.df_software_b,
                          args.mapping_sap, args.mapping_software_b)} :
            LET sap_keys == GroupedKeys(g.sap.lines)
                sb_keys == GroupedKeys(g.sb.lines)
                rows == ret[1].rows
            IN  /\ Len(rows) = Cardinality(sap_keys \cup sb_keys)
                /\ \E key \in IterationOrders(sap_keys \cup sb_keys) :
                      \A i \in 1..Len(rows) :
                          /\ i \in RowsShowing(rows, key[i])
                          /\ isna(rows[i].SAP_Quantity) <=> key[i] \notin sap_keys
                          /\ isna(rows[i].HPLM_Quantity) <=> key[i] \notin sb_keys
                          /\ key[i] \in sap_keys =>
                                /\ rows[i].SAP_Quantity.t = "num"
                                /\ rows[i].SAP_Quantity.v
                                      \in LineQuantities(g.sap.lines, key[i])
                          /\ key[i] \in sb_keys =>
                                /\ rows[i].HPLM_Quantity.t = "num"
                                /\ rows[i].HPLM_Quantity.v
                                      \in LineQuantities(g.sb.lines, key[i])

\* a row whose key has a line of summed quantity 0 on the SAP side and no
\* line on the HPLM side
C12_Witness ==
    /\ CompareReturned
    /\ \E i \in 1..Len(ret[1].rows) :
          /\ ret[1].rows[i].SAP_Quantity = Num(0)
          /\ isna(ret[1].rows[i].HPLM_Quantity)

-----------------------------------------------------------------------------
(* The order of the rows *)

\* C13: two runs of compare_boms on the same two datasets and the same two
\* mappings return the rows in the same order.
C13_SameOrderEveryRun ==
    (fn = "compare_boms" /\ Len(ret) >= 2) =>
        \A m, n \in 1..Len(ret) : ret[m].rows = ret[n].rows

-----------------------------------------------------------------------------
(* The arguments of compare_boms after the call *)

\* C14: a call of compare_boms leaves both datasets (rows, columns and
\* quantity cells) and both mappings as they were before the call.
C14_InputsUnchanged ==
    [][fn = "compare_boms" => args' = args]_vars

\* a call has returned whose SAP dataset holds a quantity cell that is not a
\* number and whose datasets still have their own columns only
C14_Witness ==
    /\ fn = "compare_boms"
    /\ Len(ret) = 1
    /\ \E i \in 1..Len(args.df_sap.rows) :
          /\ Truthy(args.mapping_sap.quantity.column)
          /\ args.df_sap.rows[i][args.mapping_sap.quantity.column].t = "str"
    /\ \A c \in 1..Len(args.df_sap.columns) : args.df_sap.columns[c] # NormUnitColumn

-----------------------------------------------------------------------------
(* Grouping by trimmed part number and normalized unit *)

RECURSIVE SumOfKey(_, _, _, _)
\* the sum of the coerced quantities of the rows of a dataset, from row i on,
\* whose trimmed part-number string and normalized unit are the key's
SumOfKey(df, mapping, key, i) ==
    IF i > Len(df.rows) THEN 0
    ELSE LET row == df.rows[i]
             part == row[mapping.part_number.column]
             unit == IF Truthy(mapping.unit.column)
                     THEN normalize_unit(row[mapping.unit.column])
                     ELSE UNASSIGNED
             qty == IF Truthy(mapping.quantity.column)
                    THEN ToNumericFill0(row[mapping.quantity.column])
                    ELSE 0
         IN  (IF ~isna(part) /\ strip(PyStr(part)) = key[1] /\ unit = key[2]
              THEN qty ELSE 0)
             + SumOfKey(df, mapping, key, i + 1)

\* C17: on each side, every key matches at most one grouped line, and the
\* quantity shown for the key is the sum of the coerced quantities of all
\* the side's rows whose trimmed part-number string and normalized unit
\* equal the key, part numbers that differ only in surrounding whitespace
\* or in type included.
C17_GroupedByTrimmedPart ==
    CompareReturned =>
        \E g \in {Grouped(args.df_sap, args.df_software_b,
                          args.mapping_sap, args.mapping_software_b)} :
            LET rows == ret[1].rows
            IN  /\ \A k \in GroupedKeys(g.sap.lines) :
                      /\ Len(MatchingLines(g.sap.lines, k)) <= 1
                      /\ \E i \in RowsShowing(rows, k) :
                            rows[i].SAP_Quantity
                                = Num(SumOfKey(args.df_sap, args.mapping_sap, k, 1))
                /\ \A k \in GroupedKeys(g.sb.lines) :
                      /\ Len(MatchingLines(g.sb.lines, k)) <= 1
                      /\ \E i \in RowsShowing(rows, k) :
                            rows[i].HPLM_Quantity
                                = Num(SumOfKey(args.df_software_b,
                                               args.mapping_software_b, k, 1))

-----------------------------------------------------------------------------
(* Properties of find_similar_columns *)

FindReturned == fn = "find_similar_columns" /\ Len(ret) = 1

NineTenths == [n |-> 9, d |-> 10]

\* the exact rule: the trimmed lower-case column name is the lower-case
\* pattern
ExactPair(col, pattern) == strip(lower(col)) = lower(pattern)

\* the substring rule: the pattern is inside the column name or the column
\* name inside the pattern, both in lower case
SubstringPair(col, pattern) ==
    \/ Contains(strip(lower(col)), lower(pattern))
    \/ Contains(lower(pattern), strip(lower(col)))

\* the similarity ratio of a column name and a pattern
PairRatio(col, pattern) == calculate_similarity(strip(lower(col)), pattern)

\* the first column, in column order, that the exact rule matches with a
\* pattern
FirstExactColumn(df_columns, target_patterns) ==
    LET exact == {c \in 1..Len(df_columns) :
                     \E p \in 1..Len(target_patterns) :
                         ExactPair(df_columns[c], target_patterns[p])}
    IN  df_columns[CHOOSE c \in exact : \A c2 \in exact : c <= c2]

\* C18: when a column name equals a pattern of the field but for case, the
\* result has confidence 1.0 and is the first exactly matching column in
\* column order, whatever the column order and whatever substring or fuzzy
\* candidates stand before it.
C18_ExactMatchWins ==
    FindReturned =>
        ((\E c \in 1..Len(args.df_columns), p \in 1..Len(args.target_patterns) :
             lower(args.df_columns[c]) = lower(args.target_patterns[p]))
         => /\ ret[1].score = One
            /\ ret[1].match = FirstExactColumn(args.df_columns, args.target_patterns))

\* an exactly matching column behind a column that is a substring candidate
\* only: the exact one is returned with confidence 1.0
C18_Witness ==
    /\ FindReturned
    /\ Len(args.df_columns) = 2
    /\ \E p \in 1..Len(args.target_patterns) :
          /\ ~ExactPair(args.df_columns[1], args.target_patterns[p])
          /\ SubstringPair(args.df_columns[1], args.target_patterns[p])
    /\ \E p \in 1..Len(args.target_patterns) :
          ExactPair(args.df_columns[2], args.target_patterns[p])
    /\ ret[1] = [match |-> args.df_columns[2], score |-> One]

\* a further case: both columns match exactly, and the first is returned
C18_WitnessTwoExact ==
    /\ FindReturned
    /\ Len(args.df_columns) = 2
    /\ \A c \in 1..2 : \E p \in 1..Len(args.target_patterns) :
          ExactPair(args.df_columns[c], args.target_patterns[p])
    /\ ret[1] = [match |-> args.df_columns[1], score |-> One]

\* the candidate score of a pair when the rules exclude one another: 1.0
\* for an exact pair, else 0.9 for a substring pair, else the similarity
\* ratio when it reaches the threshold; 0 stands for no candidate
ChainScore(col, pattern, threshold) ==
    IF ExactPair(col, pattern) THEN One
    ELSE IF SubstringPair(col, pattern) THEN NineTenths
    ELSE IF RatLeq(threshold, PairRatio(col, pattern)) THEN PairRatio(col, pattern)
    ELSE Zero

\* C19: a pair that is not exact but a substring pair has candidate score
\* exactly 0.9, and the similarity ratio is the score of a pair only when
\* neither the exact nor the substring rule applies to it; so the
\* confidence returned is the score that these exclusive rules give to one
\* of the pairs of the returned column.
C19_SubstringScoresNineTenths ==
    FindReturned =>
        \/ ret[1] = [match |-> None, score |-> Zero]
        \/ \E c \in 1..Len(args.df_columns), p \in 1..Len(args.target_patterns) :
              /\ ret[1].match = args.df_columns[c]
              /\ ~RatEq(ChainScore(args.df_columns[c], args.target_patterns[p],
                                  args.threshold), Zero)
              /\ RatEq(ret[1].score,
                       ChainScore(args.df_columns[c], args.target_patterns[p],
                                  args.threshold))

RatMax(x, y) == IF RatLess(x, y) THEN y ELSE x

\* the candidate score of a pair: 1.0 for an exact pair, else the better of
\* 0.9 (substring pair) and the similarity ratio (when it reaches the
\* threshold); 0 stands for no candidate
CandidateScore(col, pattern, threshold) ==
    IF ExactPair(col, pattern) THEN One
    ELSE RatMax(IF SubstringPair(col, pattern) THEN NineTenths ELSE Zero,
                IF RatLeq(threshold, PairRatio(col, pattern))
                THEN PairRatio(col, pattern) ELSE Zero)

\* scan order: columns outer, patterns inner
ScansBefore(q1, q2) == q1[1] < q2[1] \/ (q1[1] = q2[1] /\ q1[2] < q2[2])

C20_WitnessNone ==
    /\ FindReturned
    /\ Len(args.df_columns) = 2
    /\ ret[1] = [match |-> None, score |-> Zero]

-----------------------------------------------------------------------------
(* Properties of the downloads *)

Downloaded(f) ==
    fn = "compare_boms" /\ Len(ret) = 2 /\ ret[1].error = "" /\ ret[2].download = f

\* a sheet read back as a table: blank cells read as missing values
ReadBack(sheet) ==
    [i \in 1..Len(sheet.cells) |->
        [j \in 1..Len(sheet.header) |->
            IF sheet.cells[i][j] = Blank THEN NaN ELSE sheet.cells[i][j]]]

\* the rows of a table cell by cell, empty text and missing values alike
AsCells(rows) ==
    [i \in 1..Len(rows) |->
        [j \in 1..Len(column_order) |->
            IF fillna(CellOf(rows[i], column_order[j])) = Str(<<>>) THEN NaN
            ELSE CellOf(rows[i], column_order[j])]]

\* the rows whose status is shortage (Falta) or surplus (Sobra)
IssueRows(rows) ==
    SelectSeq(rows, LAMBDA r : r.Status \in {StatusText("falta"), StatusText("sobra")})

\* C15: the issues-only sheet of the exported workbook, read back, holds
\* exactly the rows of the table whose status is shortage or surplus, for
\* every table, one without such rows included.
C15_ExportRoundTrip ==
    Downloaded("export_to_excel") =>
        /\ EXCEL_SHEET_NAMES.discrepancies \in DOMAIN ret[2].file
        /\ ReadBack(ret[2].file[EXCEL_SHEET_NAMES.discrepancies])
              = AsCells(IssueRows(ret[1].rows))

\* C16: the floor checklist made with include_correct=False from a table of
\* compare_boms holds exactly the rows of the table whose status is
\* shortage or surplus, sorted by part number.
C16_ChecklistHoldsIssues ==
    Downloaded("generate_floor_validation_checklist") =>
        LET issues == IssueRows(ret[1].rows)
            items == ret[2].file.cells
            part == CHOOSE j \in 1..Len(validation_columns) :
                        validation_columns[j] = "Part_Number"
            issue == CHOOSE j \in 1..Len(validation_columns) :
                        validation_columns[j] = "Issues"
        IN  /\ ret[2].file.total = Len(issues)
            /\ Len(items) = Len(issues)
            /\ \E s \in SortedByPartNumber(issues) :
                  \A i \in 1..Len(items) :
                      /\ items[i][part] = Str(issues[s[i]].Part_Number)
                      /\ items[i][issue] = Str(issues[s[i]].Issues)

-----------------------------------------------------------------------------
(* Properties of the mapping's confidences and columns *)

\* some column name of the dataset equals a pattern of the field, case ignored
HasExactColumn(df_columns, field) ==
    \E i \in 1..Len(df_columns), k \in 1..Len(COLUMN_PATTERNS[field]) :
        lower(df_columns[i]) = lower(COLUMN_PATTERNS[field][k])

\* C21: a canonical field for which no column name equals a pattern, case
\* ignored, is either reported unmapped (column None, confidence 0) or
\* mapped with a confidence c, SIMILARITY_THRESHOLD <= c < 1.0.
C21_ConfidenceOfInexactMatch ==
    (fn = "map_bom_columns" /\ Len(ret) = 1) =>
        \A f \in DOMAIN COLUMN_PATTERNS :
            ~HasExactColumn(args.columns, f) =>
                \/ ret[1][f] = [column |-> None, confidence |-> Zero]
                \/ /\ ret[1][f].column # None
                   /\ RatLeq(SIMILARITY_THRESHOLD, ret[1][f].confidence)
                   /\ RatLess(ret[1][f].confidence, One)

\* a dataset with the column "Qty.": quantity is mapped to it without an
\* exact match, and another field is left unmapped
C21_Witness ==
    /\ fn = "map_bom_columns"
    /\ Len(ret) = 1
    /\ ~HasExactColumn(args.columns, "quantity")
    /\ ret[1].quantity.column = <<"Q","t","y",".">>
    /\ RatLess(ret[1].quantity.confidence, One)
    /\ \E f \in DOMAIN COLUMN_PATTERNS :
          ~HasExactColumn(args.columns, f) /\ ret[1][f].column = None

\* C28: in every mapping map_bom_columns returns, the columns chosen for
\* part_number, quantity, unit and description, where mapped, are pairwise
\* distinct.
C28_DistinctColumns ==
    (fn = "map_bom_columns" /\ Len(ret) = 1) =>
        \A f, g \in DOMAIN COLUMN_PATTERNS :
            (f # g /\ ret[1][f].column # None /\ ret[1][g].column # None)
                => ret[1][f].column # ret[1][g].column

-----------------------------------------------------------------------------
(* The cells of a side that does not have the key *)

\* an empty or null cell of a description column
EmptyOrNull(cell) == isna(cell) \/ cell = Str(<<>>)

\* the descriptions a side's grouped lines hold for a key, "" when the side
\* has no description column
LineDescriptions(lines, key, desc_col) ==
    {IF Truthy(desc_col) THEN MatchingLines(lines, key)[n].desc ELSE Str(<<>>) :
        n \in 1..Len(MatchingLines(lines, key))}

\* C22: in the row of a key that one source does not have, that source's
\* unit and description cells are empty or null, and the other source's
\* cells carry the values of its grouped line.
C22_AbsentSideEmpty ==
    CompareReturned =>
        \E g \in {Grouped(args.df_sap, args.df_software_b,
                          args.mapping_sap, args.mapping_software_b)} :
            \A i \in 1..Len(ret[1].rows) :
                LET row == ret[1].rows[i]
                IN  /\ isna(row.SAP_Quantity) =>
                          /\ row.SAP_Unit = <<>>
                          /\ EmptyOrNull(row.SAP_Description)
                          /\ \E k \in GroupedKeys(g.sb.lines) :
                                /\ i \in RowsShowing(ret[1].rows, k)
                                /\ row.HPLM_Unit = ShownUnit(k[2])
                                /\ row.HPLM_Quantity.v \in LineQuantities(g.sb.lines, k)
                                /\ row.HPLM_Description
                                      \in LineDescriptions(g.sb.lines, k,
                                              args.mapping_software_b.description.column)
                    /\ isna(row.HPLM_Quantity) =>
                          /\ row.HPLM_Unit = <<>>
                          /\ EmptyOrNull(row.HPLM_Description)
                          /\ \E k \in GroupedKeys(g.sap.lines) :
                                /\ i \in RowsShowing(ret[1].rows, k)
                                /\ row.SAP_Unit = ShownUnit(k[2])
                                /\ row.SAP_Quantity.v \in LineQuantities(g.sap.lines, k)
                                /\ row.SAP_Description
                                      \in LineDescriptions(g.sap.lines, k,
                                              args.mapping_sap.description.column)

-----------------------------------------------------------------------------
(* The classification of compare_boms beside validate_quantity *)

\* C23: for every row, with reference quantity r and comparison quantity c
\* (an absent side counting as 0, negative quantities included), the status
\* is correct if and only if validate_quantity(r, c, QUANTITY_TOLERANCE)
\* returns true.
C23_AgreesWithValidator ==
    CompareReturned =>
        \A i \in 1..Len(ret[1].rows) :
            LET row == ret[1].rows[i]
                r == QtyOf(row.SAP_Quantity)
                c == QtyOf(row.HPLM_Quantity)
            IN  IsCorrect(row) <=> validate_quantity(Num(r), Num(c), QUANTITY_TOLERANCE)

-----------------------------------------------------------------------------
(* The report of a table without rows *)

\* the keys of a report that hold a count
CountKeys ==
    {"Total Materiales", "Correctos", "Faltantes/Diferencias (-)",
     "Sobrantes/Excedentes (+)", "Total con Problemas", "Faltantes en SAP",
     "Faltantes en Software B", "Discrepancias"}

\* C24: for a table without rows, generate_status_report returns a report
\* whose total and counts are all 0 and whose two percentages are 0.
C24_EmptyTableReport ==
    (fn = "compare_boms" /\ Len(ret) = 2 /\ ret[1].rows = <<>>) =>
        /\ DOMAIN ret[2] = CountKeys \cup {"Porcentaje Correcto", "Porcentaje con Problemas"}
        /\ \A k \in CountKeys : ret[2][k] = 0
        /\ ret[2]["Porcentaje Correcto"] = 0
        /\ ret[2]["Porcentaje con Problemas"] = 0

\* both datasets have rows, none with a part number; the table of
\* compare_boms has no row and its report was generated
C24_Witness ==
    /\ fn = "compare_boms"
    /\ Len(ret) = 2
    /\ ret[1].rows = <<>>
    /\ Len(args.df_sap.rows) > 0
    /\ Len(args.df_software_b.rows) > 0
    /\ \A i \in 1..Len(args.df_sap.rows) :
          isna(args.df_sap.rows[i][args.mapping_sap.part_number.column])

-----------------------------------------------------------------------------
(* The stored results and the uploaded files *)

\* C25: the stored comparison result is created by a comparison run and
\* invalidated when a new file is uploaded: whenever results are displayed
\* (and with them offered for editing and export), and whenever the session
\* holds results, they were computed from the pair of files now uploaded.
C25_ResultsOfUploadedFiles ==
    fn = "main" =>
        /\ run.displayed => results_from = <<sap_file, software_b_file>>
        /\ session.comparison_results # <<>>
              => results_from = <<sap_file, software_b_file>>

\* whether the run of the script that led to the next state called
\* compare_boms and got a table
ComparedInNextRun ==
    \E i \in 1..Len(run'.calls) :
        run'.calls[i].fn = "compare_boms" /\ run'.calls[i].ok

\* C26: comparison_results, status_report and edited_data are all unset or
\* all set, and status_report is generate_status_report(comparison_results);
\* only a run that compared sets them, all three from the one new table; any
\* other run, a table edit included, leaves comparison_results and
\* status_report as they were.
C26_SessionValuesTogether ==
    /\ [](fn = "main" =>
            /\ \/ session = EmptySession
               \/ /\ session.comparison_results # <<>>
                  /\ session.status_report # <<>>
                  /\ session.edited_data # <<>>
            /\ session.comparison_results # <<>> =>
                  session.status_report
                      = <<generate_status_report(session.comparison_results[1])>>)
    /\ [][fn = "main" =>
            IF ComparedInNextRun
            THEN /\ session'.comparison_results # <<>>
                 /\ session'.edited_data = session'.comparison_results
            ELSE /\ session'.comparison_results = session.comparison_results
                 /\ session'.status_report = session.status_report]_vars

\* the session after a table edit: edited_data differs from the stored
\* comparison_results
C26_Witness ==
    /\ fn = "main"
    /\ session.comparison_results # <<>>
    /\ session.edited_data # session.comparison_results
    /\ CallsOf("compare_boms") = {}

-----------------------------------------------------------------------------
(* The summary and the table of one export *)

\* the number of data rows of a sheet whose Status cell holds the label
StatusCount(sheet, label) ==
    LET status == CHOOSE j \in 1..Len(sheet.header) : sheet.header[j] = "Status"
    IN  Cardinality({i \in 1..Len(sheet.cells) :
                        /\ sheet.cells[i][status].t = "str"
                        /\ Contains(sheet.cells[i][status].v, label)})

\* the number a summary row holds under a key of the report
SummaryValue(sheet, key) ==
    sheet.cells[1][CHOOSE j \in 1..Len(sheet.header) : sheet.header[j] = key].v

\* C27: at every export, the counts of the summary sheet and of the summary
\* CSV equal the numbers of correct, shortage and surplus statuses in the
\* full-data sheet exported with them.
C27_SummaryMatchesTable ==
    (fn = "main" /\ run.displayed) =>
        \A summary \in {excel_buffer[EXCEL_SHEET_NAMES.summary], csv_summary} :
            LET all_data == excel_buffer[EXCEL_SHEET_NAMES.all_data]
            IN  /\ SummaryValue(summary, "Total Materiales") = Len(all_data.cells)
                /\ SummaryValue(summary, "Correctos")
                      = StatusCount(all_data, STATUS_LABELS.correct)
                /\ SummaryValue(summary, "Faltantes/Diferencias (-)")
                      = StatusCount(all_data, STATUS_LABELS.falta)
                /\ SummaryValue(summary, "Sobrantes/Excedentes (+)")
                      = StatusCount(all_data, STATUS_LABELS.sobra)

-----------------------------------------------------------------------------
(* The quantities of the input rows and of the output rows *)

RECURSIVE SumShown(_, _)
\* the sum of a quantity column over the rows of a table, null counting as 0
SumShown(rows, col) ==
    IF Len(rows) = 0 THEN 0
    ELSE QtyOf(rows[1][col]) + SumShown(Tail(rows), col)

RECURSIVE SumInput(_, _)
\* the sum of the coerced quantities of input rows
SumInput(rows, qty_col) ==
    IF Len(rows) = 0 THEN 0
    ELSE ToNumericFill0(rows[1][qty_col]) + SumInput(Tail(rows), qty_col)

\* C29: for each source, the sum of the source's quantity over all output
\* rows equals the sum of the coerced quantities of all its input rows, rows
\* with a missing part number included.
C29_NoRowLost ==
    CompareReturned =>
        /\ SumShown(ret[1].rows, "SAP_Quantity")
              = SumInput(args.df_sap.rows, args.mapping_sap.quantity.column)
        /\ SumShown(ret[1].rows, "HPLM_Quantity")
              = SumInput(args.df_software_b.rows,
                         args.mapping_software_b.quantity.column)

-----------------------------------------------------------------------------
(* A unit column on one side only *)

\* the placeholder prepare_df gives a dataset without a unit column
Placeholder == <<"U","N","A","S","S","I","G","N","E","D">>

\* whether some raw unit of the dataset normalizes to the placeholder
HasPlaceholderUnit(df, mapping) ==
    /\ Truthy(mapping.unit.column)
    /\ \E i \in 1..Len(df.rows) :
          normalize_unit(df.rows[i][mapping.unit.column]) = Placeholder

\* the unit is mapped for one source and unmapped for the other
UnitOnOneSide ==
    Truthy(args.mapping_sap.unit.column) # Truthy(args.mapping_software_b.unit.column)

\* C30: with the unit mapped for one source only and no raw unit that
\* normalizes to 'UNASSIGNED', the sources share no key: every row has a
\* null quantity on exactly one side, a positive SAP quantity is a shortage
\* of that quantity, a positive HPLM quantity a surplus of that quantity,
\* and no row with a positive quantity is correct.
C30_NoSharedKey ==
    (/\ CompareReturned
     /\ UnitOnOneSide
     /\ ~HasPlaceholderUnit(args.df_sap, args.mapping_sap)
     /\ ~HasPlaceholderUnit(args.df_software_b, args.mapping_software_b))
    => \A i \in 1..Len(ret[1].rows) :
          LET row == ret[1].rows[i]
          IN  /\ isna(row.SAP_Quantity) # isna(row.HPLM_Quantity)
              /\ QtyOf(row.SAP_Quantity) > 0
                    => IsShortage(row, row.SAP_Quantity.v) /\ ~IsCorrect(row)
              /\ QtyOf(row.HPLM_Quantity) > 0
                    => IsSurplus(row, row.HPLM_Quantity.v) /\ ~IsCorrect(row)

\* part P1 with a positive quantity in both sources, the unit column on the
\* SAP side only: a shortage row and a surplus row for P1
C30_Witness ==
    /\ CompareReturned
    /\ UnitOnOneSide
    /\ ~HasPlaceholderUnit(args.df_sap, args.mapping_sap)
    /\ ~HasPlaceholderUnit(args.df_software_b, args.mapping_software_b)
    /\ \E i, j \in 1..Len(ret[1].rows) :
          /\ ret[1].rows[i].Part_Number = ret[1].rows[j].Part_Number
          /\ QtyOf(ret[1].rows[i].SAP_Quantity) > 0
          /\ QtyOf(ret[1].rows[j].HPLM_Quantity) > 0
          /\ IsShortage(ret[1].rows[i], ret[1].rows[i].SAP_Quantity.v)
          /\ IsSurplus(ret[1].rows[j], ret[1].rows[j].HPLM_Quantity.v)

\* a raw unit that normalizes to the placeholder: the two sources share the
\* key, one row holds both quantities
C30_WitnessPlaceholder ==
    /\ CompareReturned
    /\ UnitOnOneSide
    /\ \E i \in 1..Len(ret[1].rows) :
          ~isna(ret[1].rows[i].SAP_Quantity) /\ ~isna(ret[1].rows[i].HPLM_Quantity)

=============================================================================
